---- MODULE Spec2Model ----
(***************************************************************************)
(* State-machine model of the QEMU machine backend (package qemu,          *)
(* QEMUStubber) of podman: CreateVM, StartVM with its launch step          *)
(* runStartVMCommand, the deferred readiness wait waitForReady,            *)
(* SetProviderAttrs, StartNetworking and MountVolumesToVM, and of          *)
(* MachineOS.Apply (package os).                                           *)
(*                                                                         *)
(* One thread of control drives the backend (administrative operations     *)
(* are serialized by the caller); pc is its position.  The environment     *)
(* (network proxy, hypervisor process, guest) moves independently.         *)
(***************************************************************************)
EXTENDS Integers, Sequences, FiniteSets, TLC

(***************************************************************************)
(* Bounds of the model                                                     *)
(***************************************************************************)
\* number of StartVM calls explored in one behaviour
MaxStarts == 2
\* number of diagnostic chunks a hypervisor process writes to its stderr
MaxStderr == 1
\* number of mounts in a machine configuration
MaxMounts == 2
\* number of bytes the guest writes to the readiness socket
MaxLine == 2

(***************************************************************************)
(* Program constants                                                       *)
(***************************************************************************)
\* var gvProxyMaxBackoffAttempts = 6
gvProxyMaxBackoffAttempts == 6
\* waitForReady: maxBackoffs := 6
maxBackoffs == 6

VARIABLES
    vmState,      \* VM state as q.State reports it
    pc,           \* position of the thread of control
    mcHypervisor, \* mc.QEMUHypervisor: "nil" or the assigned sub-config
    mcRootful,    \* mc.HostUser.Rootful
    mcUSBs,       \* mc.Resources.USBs
    mcMounts,     \* mc.Mounts
    qCommand,     \* q.Command
    resizedIn,    \* VM states in which the resize utility has been run
    createRet,    \* what the last CreateVM call did and returned
    attrsRet,     \* what the last SetProviderAttrs call did and returned
    proxyUp,      \* the network-proxy socket is connectable
    nStarts,      \* StartVM calls made so far
    gvWait,       \* the proxy wait of the running StartVM call: attempts, result
    cmd,          \* the exec.Cmd of the current StartVM call, and the debug
                  \* level StartVM read when it built it
    procs,        \* hypervisor processes ever launched, indexed by pid
    bufs,         \* stderr buffer of each StartVM call
    listener,     \* pid listening on the readiness socket, 0 if none
    startRet,     \* return value of the last StartVM call
    readyHandle,  \* the readiness handle the caller holds
    wait,         \* the running waitForReady call
    readyRet,     \* return value of the last readiness wait
    mIdx,         \* MountVolumesToVM: index of the mount being processed
    sshLog,       \* remote commands issued by the mount pass, in order
    mountRet,     \* return value of the mount pass
    gvSockFile,   \* the proxy-socket artifact exists on disk
    gvCmd,        \* the gvproxy command being prepared: its registered sockets
    errLog,       \* errors logged (logrus.Error) by the running operation
    netRet,       \* what the last StartNetworking call did and returned
    mRestart,     \* MachineOS.Restart
    applyLog,     \* calls MachineOS.Apply has made, in order
    applyRet      \* return value of the last MachineOS.Apply call

vars == << vmState, pc, mcHypervisor, mcRootful, mcUSBs, mcMounts, qCommand,
           resizedIn, createRet, attrsRet, proxyUp, nStarts, gvWait, cmd,
           procs, bufs, listener, startRet, readyHandle, wait, readyRet,
           mIdx, sshLog, mountRet, gvSockFile, gvCmd, errLog, netRet,
           mRestart, applyLog, applyRet >>

lifecycleVars == << vmState, mcHypervisor, mcRootful, mcUSBs, qCommand,
                    resizedIn, createRet, attrsRet >>
startVars == << proxyUp, nStarts, gvWait, cmd, procs, bufs, listener,
                startRet, readyHandle, wait, readyRet >>
mountVars == << mIdx, sshLog, mountRet >>
netVars == << gvSockFile, gvCmd, errLog, netRet >>
osVars == << mRestart, applyLog, applyRet >>

(***************************************************************************)
(* Errors.  An error is a record: kind names the failure, cmd is the       *)
(* command an "unable to execute" wrapper quotes, cause the error it       *)
(* wraps, diag the diagnostic text it carries.                             *)
(***************************************************************************)
Err(kind, c, cause, diag) == [kind |-> kind, cmd |-> c, cause |-> cause, diag |-> diag]
Bare(kind) == Err(kind, <<>>, "nil", <<>>)
nil == Bare("nil")

(***************************************************************************)
(* Machine configuration                                                   *)
(***************************************************************************)
VMStates == {"Uninitialized", "Created", "Starting", "Running", "Stopping",
             "Stopped", "Failed"}

\* mount types: MountType9p is the one the backend supports
MountType9p == "9p"
MountTypes == {MountType9p, "virtiofs"}

\* mount targets
Targets == {"/home/u", "/mnt", "/data", "/homex"}

\* the characters of a path
Chars(path) ==
    CASE path = "/home/u" -> << "/", "h", "o", "m", "e", "/", "u" >>
      [] path = "/home" -> << "/", "h", "o", "m", "e" >>
      [] path = "/homex" -> << "/", "h", "o", "m", "e", "x" >>
      [] path = "/mnt" -> << "/", "m", "n", "t" >>
      [] path = "/data" -> << "/", "d", "a", "t", "a" >>

\* strings.HasPrefix
HasPrefix(str, prefix) ==
    /\ Len(Chars(prefix)) <= Len(Chars(str))
    /\ SubSeq(Chars(str), 1, Len(Chars(prefix))) = Chars(prefix)

Mount(src, target, tag, ro, type, secmodel) ==
    [Source |-> src, Target |-> target, Tag |-> tag, ReadOnly |-> ro,
     Type |-> type, OriginalInput |-> <<src, target, secmodel>>]

\* the mounts of the machine configurations explored by the start sequence
StartMounts == { <<>>,
                 << Mount("/src", "/home/u", "tag0", FALSE, MountType9p, "none") >> }

NoUSBs == <<>>

(***************************************************************************)
(* The command line (package command, QemuCmd): a sequence of token        *)
(* groups, each named by g with its arguments.                             *)
(***************************************************************************)
Group(g, args) == [g |-> g, args |-> args]

\* vmconfigs.SplitVolume: the security model is the last field of the input
SplitVolume(input) == input[3]

\* the shared-directory groups emitted last mount first
RECURSIVE VirtfsGroups_Reversed(_)
VirtfsGroups_Reversed(mounts) ==
    IF mounts = <<>> THEN <<>>
    ELSE VirtfsGroups_Reversed(Tail(mounts))
         \o << Group("virtfs", << Head(mounts).Source, Head(mounts).Tag,
                                  SplitVolume(Head(mounts).OriginalInput),
                                  IF Head(mounts).ReadOnly THEN "ro" ELSE "rw" >>) >>

RECURSIVE VirtfsGroups(_)
VirtfsGroups(mounts) ==
    IF mounts = <<>> THEN <<>>
    ELSE << Group("virtfs", << Head(mounts).Source, Head(mounts).Tag,
                               SplitVolume(Head(mounts).OriginalInput),
                               IF Head(mounts).ReadOnly THEN "ro" ELSE "rw" >>) >>
         \o VirtfsGroups(Tail(mounts))

RECURSIVE USBGroups(_)
USBGroups(usbs) ==
    IF usbs = <<>> THEN <<>>
    ELSE << Group("usb", << Head(usbs).Bus, Head(usbs).DevNumber >>) >>
         \o USBGroups(Tail(usbs))

\* NewQemuBuilder .. SetQmpMonitor (lines 71-76)
CommandHead ==
    << Group("bin", << "qemu-system" >>), Group("image", << "disk.img" >>),
       Group("memory", << "2048" >>), Group("cpus", << "2" >>),
       Group("ignition", << "vm.ign" >>), Group("qmp", << "qmp.sock" >>) >>

\* setQEMUCommandLine adding its groups to the command line of the earlier
\* start instead of a new builder
BuiltCommand_Appending(old, failAt, mounts, usbs) ==
    CASE failAt \in {"binary", "ignition", "readysocket"} -> old
      [] failAt \in {"gvproxy", "network"} -> old \o CommandHead
      [] OTHER -> old \o CommandHead
                  \o << Group("network", << "gvproxy.sock" >>),
                        Group("serial", << "ready.sock", "vm.pid", "vm" >>) >>
                  \o VirtfsGroups(mounts) \o USBGroups(usbs)

\* the command line setQEMUCommandLine leaves in q.Command when it stops at
\* failAt ("none": it ran to the end)
BuiltCommand(old, failAt, mounts, usbs) ==
    CASE failAt \in {"binary", "ignition", "readysocket"} -> old
      [] failAt \in {"gvproxy", "network"} -> CommandHead
      [] OTHER -> CommandHead
                  \o << Group("network", << "gvproxy.sock" >>),
                        Group("serial", << "ready.sock", "vm.pid", "vm" >>) >>
                  \o VirtfsGroups(mounts) \o USBGroups(usbs)

\* QemuCmd.SetDisplay
SetDisplay(cmdLine, mode) == cmdLine \o << Group("display", << mode >>) >>

CmdLineFailures == {"binary", "ignition", "readysocket", "gvproxy", "network"}

(***************************************************************************)
(* Values of the start sequence                                            *)
(***************************************************************************)
NoHandle == [pid |-> 0, buf |-> 0]
NoGvWait == [attempts |-> 0, result |-> "none"]
NoCmd == [Args |-> <<>>, Path |-> "", starts |-> 0, firstErr |-> "nil", buf |-> 0,
          pid |-> 0, debug |-> FALSE]
NoNetRet == [err |-> Bare("none"), deleteTried |-> FALSE, deleteFailed |-> FALSE]
NoWait == [pid |-> 0, buf |-> 0, dials |-> 0, conn |-> "none", peer |-> 0,
           rx |-> <<>>]

\* the bytes received hold a newline: ReadString('\n') has its line
HasLine(rx) == \E i \in DOMAIN rx : rx[i] = "\n"
StartRet(release, ready, err) == [release |-> release, ready |-> ready, err |-> err]
NoRet == [release |-> FALSE, ready |-> NoHandle, err |-> Bare("none")]

\* exec.Cmd.String: the path followed by the arguments after the first
CmdString(c) == << Group("bin", << c.Path >>) >> \o Tail(c.Args)

StartFailures == {"notfound", "other"}

(***************************************************************************)
(* The caller of the backend: it serializes the operations and keeps the   *)
(* VM state of the lifecycle                                               *)
(* Uninitialized -> Created -> Starting -> Running -> Stopping -> Stopped, *)
(* or Failed.                                                              *)
(***************************************************************************)
\* the caller begins a start: StartVM is entered
Caller_Start ==
    /\ pc = "idle"
    /\ \/ vmState \in {"Created", "Stopped"}
       \/ vmState = "Failed" /\ nStarts > 0
    /\ nStarts < MaxStarts
    /\ nStarts' = nStarts + 1
    /\ vmState' = "Starting"
    /\ pc' = "StartVM"
    /\ gvWait' = NoGvWait
    /\ cmd' = NoCmd
    /\ startRet' = NoRet
    /\ readyHandle' = NoHandle
    /\ readyRet' = Bare("none")
    /\ wait' = NoWait
    /\ UNCHANGED << mcHypervisor, mcRootful, mcUSBs, mcMounts, qCommand, resizedIn,
                    createRet, attrsRet, proxyUp, procs, bufs, listener >>
    /\ UNCHANGED mountVars
    /\ UNCHANGED << netVars, osVars >>

\* StartVM has returned (its locals are gone): a failed start is Failed, a
\* successful one leaves the caller with the readiness handle
Caller_StartReturned ==
    /\ pc = "StartVM_ret"
    /\ pc' = "idle"
    /\ vmState' = IF startRet.err = nil THEN vmState ELSE "Failed"
    /\ readyHandle' = startRet.ready
    /\ cmd' = NoCmd
    /\ gvWait' = NoGvWait
    /\ UNCHANGED << mcHypervisor, mcRootful, mcUSBs, mcMounts, qCommand, resizedIn,
                    createRet, attrsRet, proxyUp, nStarts, procs, bufs, listener,
                    startRet, wait, readyRet >>
    /\ UNCHANGED mountVars
    /\ UNCHANGED << netVars, osVars >>

(***************************************************************************)
(* StartVM                                                                 *)
(***************************************************************************)
\* StartVM returning its handles together with the error
StartVM_Fail_WithHandles(err) ==
    /\ startRet' = StartRet(TRUE, [pid |-> cmd.pid, buf |-> nStarts], err)
    /\ pc' = "StartVM_ret"

\* StartVM returns (nil, nil, err)
StartVM_Fail(err) ==
    /\ startRet' = StartRet(FALSE, NoHandle, err)
    /\ pc' = "StartVM_ret"

\* lines 145-147: q.setQEMUCommandLine(mc)
StartVM_setQEMUCommandLine ==
    /\ pc = "StartVM"
    /\ \E failAt \in CmdLineFailures \cup {"none"} :
         /\ qCommand' = BuiltCommand(qCommand, failAt, mcMounts, mcUSBs)
         /\ IF failAt = "none"
            THEN pc' = "sockets" /\ UNCHANGED startRet
            ELSE StartVM_Fail(Err("cmdline", <<>>, failAt, <<>>))
    /\ UNCHANGED << vmState, mcHypervisor, mcRootful, mcUSBs, mcMounts, resizedIn,
                    createRet, attrsRet, proxyUp, nStarts, gvWait, cmd, procs,
                    bufs, listener, readyHandle, wait, readyRet >>
    /\ UNCHANGED mountVars
    /\ UNCHANGED << netVars, osVars >>

\* lines 149-157: mc.ReadySocket(), mc.GVProxySocket()
StartVM_Sockets ==
    /\ pc = "sockets"
    /\ \E r \in {"ok", "readysocket", "gvproxysocket"} :
         IF r = "ok"
         THEN pc' = "gvwait" /\ UNCHANGED startRet
         ELSE StartVM_Fail(Bare(r))
    /\ UNCHANGED << vmState, mcHypervisor, mcRootful, mcUSBs, mcMounts, qCommand,
                    resizedIn, createRet, attrsRet, proxyUp, nStarts, gvWait,
                    cmd, procs, bufs, listener, readyHandle, wait, readyRet >>
    /\ UNCHANGED mountVars
    /\ UNCHANGED << netVars, osVars >>

\* sockets.WaitForSocketWithBackoffs: one attempt on the proxy socket; the
\* result is "ok", "retry" or "exhausted"
WaitForSocketAttempt(attempts, maxAttempts, up) ==
    IF up THEN "ok"
    ELSE IF attempts + 1 >= maxAttempts THEN "exhausted" ELSE "retry"

\* StartVM going on to the launch although the wait for gvproxy failed
StartVM_WaitForSocket_ErrIgnored ==
    /\ pc = "gvwait"
    /\ LET r == WaitForSocketAttempt(gvWait.attempts, gvProxyMaxBackoffAttempts,
                                     proxyUp)
       IN  /\ gvWait' = [attempts |-> gvWait.attempts + 1,
                         result |-> IF r = "retry" THEN "none" ELSE r]
           /\ pc' = IF r = "retry" THEN "gvwait" ELSE "devnull"
           /\ UNCHANGED startRet
    /\ UNCHANGED << vmState, mcHypervisor, mcRootful, mcUSBs, mcMounts, qCommand,
                    resizedIn, createRet, attrsRet, proxyUp, nStarts, cmd, procs,
                    bufs, listener, readyHandle, wait, readyRet >>
    /\ UNCHANGED mountVars
    /\ UNCHANGED << netVars, osVars >>

\* lines 159-162: the wait for gvproxy, one attempt per step
StartVM_WaitForSocket ==
    /\ pc = "gvwait"
    /\ LET r == WaitForSocketAttempt(gvWait.attempts, gvProxyMaxBackoffAttempts,
                                     proxyUp)
       IN  /\ gvWait' = [attempts |-> gvWait.attempts + 1,
                         result |-> IF r = "retry" THEN "none" ELSE r]
           /\ CASE r = "ok" -> pc' = "devnull" /\ UNCHANGED startRet
                [] r = "retry" -> pc' = "gvwait" /\ UNCHANGED startRet
                [] OTHER -> StartVM_Fail(Bare("gvproxy-unavailable"))
    /\ UNCHANGED << vmState, mcHypervisor, mcRootful, mcUSBs, mcMounts, qCommand,
                    resizedIn, createRet, attrsRet, proxyUp, nStarts, cmd, procs,
                    bufs, listener, readyHandle, wait, readyRet >>
    /\ UNCHANGED mountVars
    /\ UNCHANGED << netVars, osVars >>

\* StartVM suppressing the display whatever the debug level
StartVM_BuildCmd_DisplayAlways ==
    /\ pc = "devnull"
    /\ \E ok \in BOOLEAN, debug \in BOOLEAN :
         IF ok
         THEN LET cmdLine == SetDisplay(qCommand, "none")
              IN  /\ cmd' = [Args |-> cmdLine, Path |-> cmdLine[1].args[1],
                             starts |-> 0, firstErr |-> "nil", buf |-> nStarts,
                             pid |-> 0, debug |-> debug]
                  /\ pc' = "launch"
                  /\ UNCHANGED startRet
         ELSE StartVM_Fail(Bare("devnull")) /\ UNCHANGED cmd
    /\ UNCHANGED << vmState, mcHypervisor, mcRootful, mcUSBs, mcMounts, qCommand,
                    resizedIn, createRet, attrsRet, proxyUp, nStarts, gvWait,
                    procs, bufs, listener, readyHandle, wait, readyRet >>
    /\ UNCHANGED mountVars
    /\ UNCHANGED << netVars, osVars >>

\* lines 164-190: machine.GetDevNullFiles(), then the command line of this
\* start (display "none" unless debug logging is on) and its exec.Cmd with a
\* fresh stderr buffer
StartVM_BuildCmd ==
    /\ pc = "devnull"
    /\ \E ok \in BOOLEAN, debug \in BOOLEAN :
         IF ok
         THEN LET cmdLine == IF ~debug THEN SetDisplay(qCommand, "none") ELSE qCommand
              IN  /\ cmd' = [Args |-> cmdLine, Path |-> cmdLine[1].args[1],
                             starts |-> 0, firstErr |-> "nil", buf |-> nStarts,
                             pid |-> 0, debug |-> debug]
                  /\ pc' = "launch"
                  /\ UNCHANGED startRet
         ELSE StartVM_Fail(Bare("devnull")) /\ UNCHANGED cmd
    /\ UNCHANGED << vmState, mcHypervisor, mcRootful, mcUSBs, mcMounts, qCommand,
                    resizedIn, createRet, attrsRet, proxyUp, nStarts, gvWait,
                    procs, bufs, listener, readyHandle, wait, readyRet >>
    /\ UNCHANGED mountVars
    /\ UNCHANGED << netVars, osVars >>

(***************************************************************************)
(* runStartVMCommand                                                       *)
(***************************************************************************)
\* cmd.Start() succeeds: a new hypervisor process runs, its stderr attached
\* to the buffer of this StartVM call
ProcessStarted ==
    /\ procs' = Append(procs, [call |-> cmd.buf, alive |-> TRUE])
    /\ cmd' = [cmd EXCEPT !.starts = @ + 1, !.pid = Len(procs) + 1]
    /\ pc' = "started"
    /\ UNCHANGED startRet

\* lines 123-124: the first cmd.Start()
runStartVMCommand_Start ==
    /\ pc = "launch"
    /\ \E r \in {"ok"} \cup StartFailures :
         IF r = "ok"
         THEN ProcessStarted
         ELSE /\ cmd' = [cmd EXCEPT !.starts = @ + 1, !.firstErr = r]
              /\ pc' = "reresolve"
              /\ UNCHANGED << procs, startRet >>
    /\ UNCHANGED << vmState, mcHypervisor, mcRootful, mcUSBs, mcMounts, qCommand,
                    resizedIn, createRet, attrsRet, proxyUp, nStarts, gvWait,
                    bufs, listener, readyHandle, wait, readyRet >>
    /\ UNCHANGED mountVars
    /\ UNCHANGED << netVars, osVars >>

\* lines 127-135: config.Default() and cfg.FindHelperBinary(QemuCommand, true)
runStartVMCommand_Reresolve ==
    /\ pc = "reresolve"
    /\ \E r \in {"ok", "config", "helper-binary"} :
         IF r = "ok"
         THEN /\ cmd' = [cmd EXCEPT !.Path = "qemu-system-resolved"]
              /\ pc' = "relaunch"
              /\ UNCHANGED startRet
         ELSE StartVM_Fail(Bare(r)) /\ UNCHANGED cmd
    /\ UNCHANGED << vmState, mcHypervisor, mcRootful, mcUSBs, mcMounts, qCommand,
                    resizedIn, createRet, attrsRet, proxyUp, nStarts, gvWait,
                    procs, bufs, listener, readyHandle, wait, readyRet >>
    /\ UNCHANGED mountVars
    /\ UNCHANGED << netVars, osVars >>

\* runStartVMCommand returning the error of the second start as it is
runStartVMCommand_Restart_Unwrapped ==
    /\ pc = "relaunch"
    /\ \E r \in {"ok"} \cup StartFailures :
         IF r = "ok"
         THEN ProcessStarted
         ELSE /\ cmd' = [cmd EXCEPT !.starts = @ + 1]
              /\ StartVM_Fail(Bare(r))
              /\ UNCHANGED procs
    /\ UNCHANGED << vmState, mcHypervisor, mcRootful, mcUSBs, mcMounts, qCommand,
                    resizedIn, createRet, attrsRet, proxyUp, nStarts, gvWait,
                    bufs, listener, readyHandle, wait, readyRet >>
    /\ UNCHANGED mountVars
    /\ UNCHANGED << netVars, osVars >>

\* lines 136-139: the second cmd.Start()
runStartVMCommand_Restart ==
    /\ pc = "relaunch"
    /\ \E r \in {"ok"} \cup StartFailures :
         IF r = "ok"
         THEN ProcessStarted
         ELSE /\ cmd' = [cmd EXCEPT !.starts = @ + 1]
              /\ StartVM_Fail(Err("execute", CmdString(cmd), r, <<>>))
              /\ UNCHANGED procs
    /\ UNCHANGED << vmState, mcHypervisor, mcRootful, mcUSBs, mcMounts, qCommand,
                    resizedIn, createRet, attrsRet, proxyUp, nStarts, gvWait,
                    bufs, listener, readyHandle, wait, readyRet >>
    /\ UNCHANGED mountVars
    /\ UNCHANGED << netVars, osVars >>

\* StartVM waiting for readiness itself before it returns
StartVM_Return_WaitsInline ==
    /\ pc = "started"
    /\ wait' = [NoWait EXCEPT !.pid = cmd.pid, !.buf = cmd.buf]
    /\ pc' = "dial"
    /\ UNCHANGED << vmState, mcHypervisor, mcRootful, mcUSBs, mcMounts, qCommand,
                    resizedIn, createRet, attrsRet, proxyUp, nStarts, gvWait,
                    cmd, procs, bufs, listener, startRet, readyHandle, readyRet >>
    /\ UNCHANGED mountVars
    /\ UNCHANGED << netVars, osVars >>

\* lines 195-202: StartVM returns cmd.Process.Release and readyFunc, the
\* closure over the pid and the stderr buffer of cmd
StartVM_Return ==
    /\ pc = "started"
    /\ startRet' = StartRet(TRUE, [pid |-> cmd.pid, buf |-> cmd.buf], nil)
    /\ pc' = "StartVM_ret"
    /\ UNCHANGED << vmState, mcHypervisor, mcRootful, mcUSBs, mcMounts, qCommand,
                    resizedIn, createRet, attrsRet, proxyUp, nStarts, gvWait,
                    cmd, procs, bufs, listener, readyHandle, wait, readyRet >>
    /\ UNCHANGED mountVars
    /\ UNCHANGED << netVars, osVars >>

(***************************************************************************)
(* waitForReady, the body of the readiness handle                          *)
(***************************************************************************)
\* the caller invokes the readiness handle it holds
Caller_InvokeReady ==
    /\ pc = "idle"
    /\ vmState = "Starting"
    /\ readyHandle # NoHandle
    /\ wait' = [NoWait EXCEPT !.pid = readyHandle.pid, !.buf = readyHandle.buf]
    /\ readyHandle' = NoHandle
    /\ pc' = "dial"
    /\ UNCHANGED << vmState, mcHypervisor, mcRootful, mcUSBs, mcMounts, qCommand,
                    resizedIn, createRet, attrsRet, proxyUp, nStarts, gvWait,
                    cmd, procs, bufs, listener, startRet, readyRet >>
    /\ UNCHANGED mountVars
    /\ UNCHANGED << netVars, osVars >>

\* sockets.DialSocketWithBackoffsAndProcCheck: one attempt.  The health
\* check of the monitored process comes first; a dead process ends the dial
\* at once, a refused connection counts one attempt.
DialAttempt(dials, maxAttempts, alive, connectable) ==
    IF ~alive THEN "died"
    ELSE IF connectable THEN "connected"
    ELSE IF dials + 1 >= maxAttempts THEN "timeout" ELSE "retry"

\* waitForReady handing the dialer an empty buffer instead of the stderr
\* buffer of the process
waitForReady_Dial_NoStderr ==
    /\ pc = "dial"
    /\ LET r == DialAttempt(wait.dials, maxBackoffs, procs[wait.pid].alive,
                            listener # 0)
       IN  CASE r = "died" ->
                  /\ readyRet' = Err("process-died", <<>>, "nil", <<>>)
                  /\ pc' = "ready_ret"
                  /\ UNCHANGED wait
             [] r = "connected" ->
                  /\ wait' = [wait EXCEPT !.dials = @ + 1, !.conn = "open",
                                          !.peer = listener]
                  /\ pc' = "read"
                  /\ UNCHANGED readyRet
             [] r = "retry" ->
                  /\ wait' = [wait EXCEPT !.dials = @ + 1]
                  /\ pc' = "dial"
                  /\ UNCHANGED readyRet
             [] OTHER ->
                  /\ wait' = [wait EXCEPT !.dials = @ + 1]
                  /\ readyRet' = Bare("timeout")
                  /\ pc' = "ready_ret"
    /\ UNCHANGED << vmState, mcHypervisor, mcRootful, mcUSBs, mcMounts, qCommand,
                    resizedIn, createRet, attrsRet, proxyUp, nStarts, gvWait,
                    cmd, procs, bufs, listener, startRet, readyHandle >>
    /\ UNCHANGED mountVars
    /\ UNCHANGED << netVars, osVars >>

\* waitForReady dialing with one attempt more than maxBackoffs
waitForReady_Dial_OneMore ==
    /\ pc = "dial"
    /\ LET r == DialAttempt(wait.dials, maxBackoffs + 1, procs[wait.pid].alive,
                            listener # 0)
       IN  CASE r = "died" ->
                  /\ readyRet' = Err("process-died", <<>>, "nil", bufs[wait.buf])
                  /\ pc' = "ready_ret"
                  /\ UNCHANGED wait
             [] r = "connected" ->
                  /\ wait' = [wait EXCEPT !.dials = @ + 1, !.conn = "open",
                                          !.peer = listener]
                  /\ pc' = "read"
                  /\ UNCHANGED readyRet
             [] r = "retry" ->
                  /\ wait' = [wait EXCEPT !.dials = @ + 1]
                  /\ pc' = "dial"
                  /\ UNCHANGED readyRet
             [] OTHER ->
                  /\ wait' = [wait EXCEPT !.dials = @ + 1]
                  /\ readyRet' = Bare("timeout")
                  /\ pc' = "ready_ret"
    /\ UNCHANGED << vmState, mcHypervisor, mcRootful, mcUSBs, mcMounts, qCommand,
                    resizedIn, createRet, attrsRet, proxyUp, nStarts, gvWait,
                    cmd, procs, bufs, listener, startRet, readyHandle >>
    /\ UNCHANGED mountVars
    /\ UNCHANGED << netVars, osVars >>

\* lines 206-211: the dial of the readiness socket, one attempt per step
waitForReady_Dial ==
    /\ pc = "dial"
    /\ LET r == DialAttempt(wait.dials, maxBackoffs, procs[wait.pid].alive,
                            listener # 0)
       IN  CASE r = "died" ->
                  /\ readyRet' = Err("process-died", <<>>, "nil", bufs[wait.buf])
                  /\ pc' = "ready_ret"
                  /\ UNCHANGED wait
             [] r = "connected" ->
                  /\ wait' = [wait EXCEPT !.dials = @ + 1, !.conn = "open",
                                          !.peer = listener]
                  /\ pc' = "read"
                  /\ UNCHANGED readyRet
             [] r = "retry" ->
                  /\ wait' = [wait EXCEPT !.dials = @ + 1]
                  /\ pc' = "dial"
                  /\ UNCHANGED readyRet
             [] OTHER ->
                  /\ wait' = [wait EXCEPT !.dials = @ + 1]
                  /\ readyRet' = Bare("timeout")
                  /\ pc' = "ready_ret"
    /\ UNCHANGED << vmState, mcHypervisor, mcRootful, mcUSBs, mcMounts, qCommand,
                    resizedIn, createRet, attrsRet, proxyUp, nStarts, gvWait,
                    cmd, procs, bufs, listener, startRet, readyHandle >>
    /\ UNCHANGED mountVars
    /\ UNCHANGED << netVars, osVars >>

\* waitForReady dropping the error of the read
waitForReady_Read_ErrDropped ==
    /\ pc = "read"
    /\ HasLine(wait.rx) \/ wait.conn = "eof"
    /\ readyRet' = nil
    /\ wait' = [wait EXCEPT !.conn = "closed"]
    /\ pc' = "ready_ret"
    /\ UNCHANGED << vmState, mcHypervisor, mcRootful, mcUSBs, mcMounts, qCommand,
                    resizedIn, createRet, attrsRet, proxyUp, nStarts, gvWait,
                    cmd, procs, bufs, listener, startRet, readyHandle >>
    /\ UNCHANGED mountVars
    /\ UNCHANGED << netVars, osVars >>

\* lines 212-215: bufio.NewReader(conn).ReadString('\n') blocks until a
\* newline has arrived or the connection has ended; the deferred conn.Close()
waitForReady_Read ==
    /\ pc = "read"
    /\ HasLine(wait.rx) \/ wait.conn = "eof"
    /\ readyRet' = IF HasLine(wait.rx) THEN nil ELSE Bare("read-eof")
    /\ wait' = [wait EXCEPT !.conn = "closed"]
    /\ pc' = "ready_ret"
    /\ UNCHANGED << vmState, mcHypervisor, mcRootful, mcUSBs, mcMounts, qCommand,
                    resizedIn, createRet, attrsRet, proxyUp, nStarts, gvWait,
                    cmd, procs, bufs, listener, startRet, readyHandle >>
    /\ UNCHANGED mountVars
    /\ UNCHANGED << netVars, osVars >>

\* the readiness wait has returned (its locals, and the stderr buffer only
\* the handle referred to, are gone): only now may the VM count as Running
Caller_ReadyReturned ==
    /\ pc = "ready_ret"
    /\ pc' = "idle"
    /\ vmState' = IF readyRet = nil THEN "Running" ELSE "Failed"
    /\ wait' = NoWait
    /\ bufs' = [bufs EXCEPT ![wait.buf] = <<>>]
    /\ UNCHANGED << mcHypervisor, mcRootful, mcUSBs, mcMounts, qCommand, resizedIn,
                    createRet, attrsRet, proxyUp, nStarts, gvWait, cmd, procs,
                    listener, startRet, readyHandle, readyRet >>
    /\ UNCHANGED mountVars
    /\ UNCHANGED << netVars, osVars >>

\* the caller stops a running VM
Caller_Stop ==
    /\ pc = "idle"
    /\ vmState = "Running"
    /\ vmState' = "Stopping"
    /\ pc' = "stopping"
    /\ UNCHANGED << mcHypervisor, mcRootful, mcUSBs, mcMounts, qCommand, resizedIn,
                    createRet, attrsRet >>
    /\ UNCHANGED startVars
    /\ UNCHANGED mountVars
    /\ UNCHANGED << netVars, osVars >>

\* the stop has ended: no hypervisor process is left
Caller_Stopped ==
    /\ pc = "stopping"
    /\ vmState' = "Stopped"
    /\ pc' = "idle"
    /\ procs' = [p \in DOMAIN procs |-> [procs[p] EXCEPT !.alive = FALSE]]
    /\ listener' = 0
    /\ UNCHANGED << mcHypervisor, mcRootful, mcUSBs, mcMounts, qCommand, resizedIn,
                    createRet, attrsRet, proxyUp, nStarts, gvWait, cmd, bufs,
                    startRet, readyHandle, wait, readyRet >>
    /\ UNCHANGED mountVars
    /\ UNCHANGED << netVars, osVars >>

(***************************************************************************)
(* The environment: the network proxy, the hypervisor processes, the guest *)
(* They move at any time; a move is taken where the program observes it    *)
(* (the proxy socket during the proxy wait, the processes and the          *)
(* readiness socket during the readiness wait), a move made earlier being  *)
(* the same move taken on entry to that step.                              *)
(***************************************************************************)
\* the network proxy publishes its socket, or goes away
Proxy_Toggle ==
    /\ pc = "gvwait"
    /\ proxyUp' = ~proxyUp
    /\ UNCHANGED << pc, nStarts, gvWait, cmd, procs, bufs, listener, startRet,
                    readyHandle, wait, readyRet >>
    /\ UNCHANGED lifecycleVars
    /\ UNCHANGED << mcMounts, mIdx, sshLog, mountRet >>
    /\ UNCHANGED << netVars, osVars >>

\* a running hypervisor opens the readiness socket
Proc_Listens ==
    /\ pc = "dial"
    /\ listener = 0
    /\ \E p \in DOMAIN procs :
         /\ procs[p].alive
         /\ listener' = p
    /\ UNCHANGED << pc, proxyUp, nStarts, gvWait, cmd, procs, bufs, startRet,
                    readyHandle, wait, readyRet >>
    /\ UNCHANGED lifecycleVars
    /\ UNCHANGED << mcMounts, mIdx, sshLog, mountRet >>
    /\ UNCHANGED << netVars, osVars >>

\* a running hypervisor writes a diagnostic to its stderr
Proc_WritesStderr ==
    /\ pc = "dial"
    /\ \E p \in DOMAIN procs :
         /\ p = wait.pid
         /\ procs[p].alive
         /\ Len(bufs[procs[p].call]) < MaxStderr
         /\ bufs' = [bufs EXCEPT ![procs[p].call] = Append(@, "qemu: error")]
    /\ UNCHANGED << pc, proxyUp, nStarts, gvWait, cmd, procs, listener, startRet,
                    readyHandle, wait, readyRet >>
    /\ UNCHANGED lifecycleVars
    /\ UNCHANGED << mcMounts, mIdx, sshLog, mountRet >>
    /\ UNCHANGED << netVars, osVars >>

\* a hypervisor process terminates; its sockets close
Proc_Dies ==
    /\ pc \in {"dial", "read"}
    /\ \E p \in DOMAIN procs :
         /\ procs[p].alive
         /\ procs' = [procs EXCEPT ![p].alive = FALSE]
         /\ listener' = IF listener = p THEN 0 ELSE listener
         /\ wait' = IF wait.conn = "open" /\ wait.peer = p
                    THEN [wait EXCEPT !.conn = "eof"] ELSE wait
    /\ UNCHANGED << pc, proxyUp, nStarts, gvWait, cmd, bufs, startRet,
                    readyHandle, readyRet >>
    /\ UNCHANGED lifecycleVars
    /\ UNCHANGED << mcMounts, mIdx, sshLog, mountRet >>
    /\ UNCHANGED << netVars, osVars >>

\* the guest writes to the readiness socket, a byte at a time, up to the
\* end of its line
Guest_Sends ==
    /\ wait.conn = "open"
    /\ ~HasLine(wait.rx)
    /\ Len(wait.rx) < MaxLine
    /\ \E byte \in {"x", "\n"} :
         wait' = [wait EXCEPT !.rx = Append(@, byte)]
    /\ UNCHANGED << pc, proxyUp, nStarts, gvWait, cmd, procs, bufs, listener,
                    startRet, readyHandle, readyRet >>
    /\ UNCHANGED lifecycleVars
    /\ UNCHANGED << mcMounts, mIdx, sshLog, mountRet >>
    /\ UNCHANGED << netVars, osVars >>

(***************************************************************************)
(* resizeDisk, CreateVM                                                    *)
(***************************************************************************)
\* how a resizeDisk call ends: config.Default() fails, FindHelperBinary
\* fails, the resize utility runs and fails, or it runs and succeeds
ResizeOutcomes == {"config", "helper-binary", "resize-failed", "ok"}

\* lines 244-247: the resize utility is run
ResizeRuns(r) == r \in {"resize-failed", "ok"}

\* lines 234-252: the error resizeDisk returns
resizeDisk(r) ==
    CASE r = "ok" -> nil
      [] r = "resize-failed" -> Err("resizing image", <<>>, "exit status", <<>>)
      [] OTHER -> Bare(r)

NoHypervisor == [QMPMonitor |-> "", QEMUPidPath |-> ""]

\* what a CreateVM call returned, whether the resize utility ran, and how
\* many times it called resizeDisk
CreateRet(err, resized, resizeCalls) ==
    [err |-> err, resized |-> resized, resizeCalls |-> resizeCalls]

\* CreateVM assigning the sub-config as soon as it has the monitor
CreateVM_AssignFirst ==
    /\ pc = "idle"
    /\ vmState = "Uninitialized"
    /\ \E failAt \in {"none", "monitor", "runtimedir", "pidfile"},
          r \in ResizeOutcomes :
         CASE failAt = "monitor" ->
                /\ createRet' = CreateRet(Bare(failAt), FALSE, 0)
                /\ UNCHANGED << mcHypervisor, resizedIn >>
           [] failAt \in {"runtimedir", "pidfile"} ->
                /\ mcHypervisor' = [QMPMonitor |-> "qmp.sock", QEMUPidPath |-> ""]
                /\ createRet' = CreateRet(Bare(failAt), FALSE, 0)
                /\ UNCHANGED resizedIn
           [] OTHER ->
                /\ mcHypervisor' = [QMPMonitor |-> "qmp.sock", QEMUPidPath |-> "vm.pid"]
                /\ resizedIn' = IF ResizeRuns(r) THEN resizedIn \cup {vmState}
                                ELSE resizedIn
                /\ createRet' = CreateRet(resizeDisk(r), ResizeRuns(r), 1)
    /\ pc' = "CreateVM_ret"
    /\ UNCHANGED << vmState, mcRootful, mcUSBs, mcMounts, qCommand, attrsRet >>
    /\ UNCHANGED startVars
    /\ UNCHANGED mountVars
    /\ UNCHANGED << netVars, osVars >>

\* lines 98-120
CreateVM ==
    /\ pc = "idle"
    /\ vmState = "Uninitialized"
    /\ \E failAt \in {"none", "monitor", "runtimedir", "pidfile"},
          r \in ResizeOutcomes :
         IF failAt # "none"
         THEN /\ createRet' = CreateRet(Bare(failAt), FALSE, 0)
              /\ UNCHANGED << mcHypervisor, resizedIn >>
         ELSE /\ mcHypervisor' = [QMPMonitor |-> "qmp.sock", QEMUPidPath |-> "vm.pid"]
              /\ resizedIn' = IF ResizeRuns(r) THEN resizedIn \cup {vmState}
                              ELSE resizedIn
              /\ createRet' = CreateRet(resizeDisk(r), ResizeRuns(r), 1)
    /\ pc' = "CreateVM_ret"
    /\ UNCHANGED << vmState, mcRootful, mcUSBs, mcMounts, qCommand, attrsRet >>
    /\ UNCHANGED startVars
    /\ UNCHANGED mountVars
    /\ UNCHANGED << netVars, osVars >>

\* CreateVM has returned
Caller_CreateReturned ==
    /\ pc = "CreateVM_ret"
    /\ pc' = "idle"
    /\ vmState' = IF createRet.err = nil THEN "Created" ELSE "Failed"
    /\ UNCHANGED << mcHypervisor, mcRootful, mcUSBs, mcMounts, qCommand, resizedIn,
                    createRet, attrsRet >>
    /\ UNCHANGED startVars
    /\ UNCHANGED mountVars
    /\ UNCHANGED << netVars, osVars >>

(***************************************************************************)
(* SetProviderAttrs                                                        *)
(***************************************************************************)
\* define.SetOptions: each option is unset (nil) or carries a value
Unset(v) == [set |-> FALSE, val |-> v]
Some(v) == [set |-> TRUE, val |-> v]
DiskSizeOpts == {Unset("0"), Some("20")}
RootfulOpts == {Unset(FALSE), Some(FALSE), Some(TRUE)}
USBOpts == {Unset(<<>>), Some(<<>>), Some(<< "bus=1,devnum=2" >>), Some(<< "bogus" >>)}

\* define.ParseUSBs: every entry must name a device; the parsed list, in
\* input order
USBWellFormed(e) == e = "bus=1,devnum=2"
ParseUSBsFails(in) == \E i \in DOMAIN in : ~USBWellFormed(in[i])
ParseUSBs(in) == [i \in DOMAIN in |-> [Bus |-> "1", DevNumber |-> "2"]]

AttrsRet(seq, err, resized, rootfulCalled) ==
    [seq |-> seq, err |-> err, resized |-> resized, rootfulCalled |-> rootfulCalled]

\* lines 255-261: the call is refused, nothing is done
RejectAttrs(err) ==
    /\ attrsRet' = AttrsRet(1 - attrsRet.seq, err, FALSE, FALSE)
    /\ UNCHANGED << resizedIn, mcRootful, mcUSBs >>

\* SetProviderAttrs calling the rootful setter whenever the option is set
ApplyAttrs_RootfulAlways(opts, r, rootfulOK) ==
    LET seq == 1 - attrsRet.seq
        doResize == opts.DiskSize.set
        resizeErr == IF doResize THEN resizeDisk(r) ELSE nil
        doRootful == opts.Rootful.set
        doUSBs == opts.USBs.set
    IN  /\ resizedIn' = IF doResize /\ ResizeRuns(r)
                        THEN resizedIn \cup {vmState} ELSE resizedIn
        /\ IF resizeErr # nil
           THEN /\ attrsRet' = AttrsRet(seq, resizeErr, ResizeRuns(r), FALSE)
                /\ UNCHANGED << mcRootful, mcUSBs >>
           ELSE IF doRootful /\ ~rootfulOK
           THEN /\ attrsRet' = AttrsRet(seq, Bare("set-rootful"), doResize, TRUE)
                /\ UNCHANGED << mcRootful, mcUSBs >>
           ELSE /\ mcRootful' = IF doRootful THEN opts.Rootful.val ELSE mcRootful
                /\ IF doUSBs /\ ParseUSBsFails(opts.USBs.val)
                   THEN /\ attrsRet' = AttrsRet(seq, Bare("parse-usbs"),
                                                doResize, doRootful)
                        /\ UNCHANGED mcUSBs
                   ELSE /\ attrsRet' = AttrsRet(seq, nil, doResize, doRootful)
                        /\ mcUSBs' = IF doUSBs THEN ParseUSBs(opts.USBs.val)
                                     ELSE mcUSBs

\* lines 263-284: disk resize, rootful toggle, USB list, in this order, up
\* to the first failure.  r: how a resizeDisk call ends; rootfulOK:
\* mc.SetRootful succeeds
ApplyAttrs(opts, r, rootfulOK) ==
    LET seq == 1 - attrsRet.seq
        doResize == opts.DiskSize.set
        resizeErr == IF doResize THEN resizeDisk(r) ELSE nil
        doRootful == opts.Rootful.set /\ mcRootful # opts.Rootful.val
        doUSBs == opts.USBs.set
    IN  /\ resizedIn' = IF doResize /\ ResizeRuns(r)
                        THEN resizedIn \cup {vmState} ELSE resizedIn
        /\ IF resizeErr # nil
           THEN /\ attrsRet' = AttrsRet(seq, resizeErr, ResizeRuns(r), FALSE)
                /\ UNCHANGED << mcRootful, mcUSBs >>
           ELSE IF doRootful /\ ~rootfulOK
           THEN /\ attrsRet' = AttrsRet(seq, Bare("set-rootful"), doResize, TRUE)
                /\ UNCHANGED << mcRootful, mcUSBs >>
           ELSE /\ mcRootful' = IF doRootful THEN opts.Rootful.val ELSE mcRootful
                /\ IF doUSBs /\ ParseUSBsFails(opts.USBs.val)
                   THEN /\ attrsRet' = AttrsRet(seq, Bare("parse-usbs"),
                                                doResize, doRootful)
                        /\ UNCHANGED mcUSBs
                   ELSE /\ attrsRet' = AttrsRet(seq, nil, doResize, doRootful)
                        /\ mcUSBs' = IF doUSBs THEN ParseUSBs(opts.USBs.val)
                                     ELSE mcUSBs

\* SetProviderAttrs refusing a running VM only
SetProviderAttrs_RunningOnly(opts, stateErr, r, rootfulOK) ==
    /\ pc = "idle"
    /\ CASE stateErr -> RejectAttrs(Bare("state"))
         [] ~stateErr /\ vmState = "Running" -> RejectAttrs(Bare("not-stopped"))
         [] OTHER -> ApplyAttrs(opts, r, rootfulOK)
    /\ UNCHANGED << vmState, pc, mcHypervisor, mcMounts, qCommand, createRet >>
    /\ UNCHANGED startVars
    /\ UNCHANGED mountVars
    /\ UNCHANGED << netVars, osVars >>

\* lines 254-285.  stateErr: q.State fails
SetProviderAttrs(opts, stateErr, r, rootfulOK) ==
    /\ pc = "idle"
    /\ CASE stateErr -> RejectAttrs(Bare("state"))
         [] ~stateErr /\ vmState # "Stopped" -> RejectAttrs(Bare("not-stopped"))
         [] OTHER -> ApplyAttrs(opts, r, rootfulOK)
    /\ UNCHANGED << vmState, pc, mcHypervisor, mcMounts, qCommand, createRet >>
    /\ UNCHANGED startVars
    /\ UNCHANGED mountVars
    /\ UNCHANGED << netVars, osVars >>

\* the outcomes of the resizeDisk call and of the mc.SetRootful call that a
\* SetProviderAttrs call with these options can make
ResizeOutcomesFor(opts) == IF opts.DiskSize.set THEN ResizeOutcomes ELSE {"ok"}
RootfulOutcomesFor(opts) ==
    IF opts.Rootful.set /\ opts.Rootful.val # mcRootful THEN BOOLEAN ELSE {TRUE}

\* a call of SetProviderAttrs with any options
Caller_SetProviderAttrs ==
    \E d \in DiskSizeOpts, rf \in RootfulOpts, u \in USBOpts, stateErr \in BOOLEAN :
        LET opts == [DiskSize |-> d, Rootful |-> rf, USBs |-> u]
        IN  \E r \in ResizeOutcomesFor(opts), rootfulOK \in RootfulOutcomesFor(opts) :
                SetProviderAttrs(opts, stateErr, r, rootfulOK)

(***************************************************************************)
(* The initial state and the start sequence                                *)
(***************************************************************************)
Init ==
    /\ vmState = "Uninitialized"
    /\ pc = "idle"
    /\ mcHypervisor = NoHypervisor
    /\ mcRootful = FALSE
    /\ mcUSBs = NoUSBs
    /\ mcMounts \in StartMounts
    /\ qCommand = <<>>
    /\ resizedIn = {}
    /\ createRet = CreateRet(Bare("none"), FALSE, 0)
    /\ attrsRet = AttrsRet(0, Bare("none"), FALSE, FALSE)
    /\ proxyUp = FALSE
    /\ nStarts = 0
    /\ gvWait = NoGvWait
    /\ cmd = NoCmd
    /\ procs = <<>>
    /\ bufs = [c \in 1..MaxStarts |-> <<>>]
    /\ listener = 0
    /\ startRet = NoRet
    /\ readyHandle = NoHandle
    /\ wait = NoWait
    /\ readyRet = Bare("none")
    /\ mIdx = 0
    /\ sshLog = <<>>
    /\ mountRet = Bare("none")
    /\ gvSockFile = FALSE
    /\ gvCmd = <<>>
    /\ errLog = <<>>
    /\ netRet = NoNetRet
    /\ mRestart = FALSE
    /\ applyLog = <<>>
    /\ applyRet = Bare("none")

Next ==
    \/ CreateVM
    \/ Caller_CreateReturned
    \/ Caller_Start
    \/ StartVM_setQEMUCommandLine
    \/ StartVM_Sockets
    \/ StartVM_WaitForSocket
    \/ StartVM_BuildCmd
    \/ runStartVMCommand_Start
    \/ runStartVMCommand_Reresolve
    \/ runStartVMCommand_Restart
    \/ StartVM_Return
    \/ Caller_StartReturned
    \/ Caller_InvokeReady
    \/ waitForReady_Dial
    \/ waitForReady_Read
    \/ Caller_ReadyReturned
    \/ Caller_Stop
    \/ Caller_Stopped
    \/ Proxy_Toggle
    \/ Proc_Listens
    \/ Proc_WritesStderr
    \/ Proc_Dies
    \/ Guest_Sends

Spec == Init /\ [][Next]_vars

\* the thread of control, once in StartVM or in waitForReady, runs on until
\* it returns or blocks; the caller and the environment owe nothing
Fairness ==
    /\ WF_vars(StartVM_setQEMUCommandLine)
    /\ WF_vars(StartVM_Sockets)
    /\ WF_vars(StartVM_WaitForSocket)
    /\ WF_vars(StartVM_BuildCmd)
    /\ WF_vars(runStartVMCommand_Start)
    /\ WF_vars(runStartVMCommand_Reresolve)
    /\ WF_vars(runStartVMCommand_Restart)
    /\ WF_vars(StartVM_Return)
    /\ WF_vars(waitForReady_Dial)
    /\ WF_vars(waitForReady_Read)

FairSpec == Init /\ [][Next]_vars /\ Fairness

(***************************************************************************)
(* The attribute updates over the lifecycle.  The start and stop sequences *)
(* appear here by their effect on the VM state only.                       *)
(***************************************************************************)
Lifecycle_Step ==
    /\ pc = "idle"
    /\ \/ vmState \in {"Created", "Stopped"} /\ vmState' = "Starting"
       \/ vmState = "Starting" /\ vmState' \in {"Running", "Failed"}
       \/ vmState = "Running" /\ vmState' = "Stopping"
       \/ vmState = "Stopping" /\ vmState' = "Stopped"
    /\ UNCHANGED << pc, mcHypervisor, mcRootful, mcUSBs, mcMounts, qCommand,
                    resizedIn, createRet, attrsRet >>
    /\ UNCHANGED startVars
    /\ UNCHANGED mountVars
    /\ UNCHANGED << netVars, osVars >>

(***************************************************************************)
(* MountVolumesToVM                                                        *)
(***************************************************************************)
\* the machine configurations of the mount pass: up to MaxMounts mounts, the
\* i-th with tag vol<i>
MountChoices == { Mount("/src", t, "vol", ro, ty, "none") :
                    t \in Targets, ro \in BOOLEAN, ty \in MountTypes }
MountConfigs == UNION { [1..n -> MountChoices] : n \in 0..MaxMounts }

\* lines 316-323: the arguments of the directory-creation command
MkdirArgs(mount) ==
    LET toggle == ~HasPrefix(mount.Target, "/home") /\ ~HasPrefix(mount.Target, "/mnt")
    IN  << "-q", "--" >>
        \o (IF toggle THEN << "sudo", "chattr", "-i", "/", ";" >> ELSE <<>>)
        \o << "sudo", "mkdir", "-p", mount.Target >>
        \o (IF toggle THEN << ";", "sudo", "chattr", "+i", "/", ";" >> ELSE <<>>)

\* lines 330-336: the arguments of the mount command
MountArgs(mount) ==
    << "-q", "--", "sudo", "mount" >>
    \o << "-t", "9p" >>
    \o << "-o", "trans=virtio", mount.Tag, mount.Target >>
    \o << "-o", "version=9p2000.L,msize=131072,cache=mmap" >>
    \o (IF mount.ReadOnly THEN << "-o", "ro" >> ELSE <<>>)

\* machine.CommonSSH: the remote command is sent; ok is its outcome
CommonSSH(i, kind, args, ok) ==
    sshLog' = Append(sshLog, [mount |-> i, kind |-> kind, args |-> args, ok |-> ok])

\* the caller mounts the volumes of the running machine
Caller_Mount ==
    /\ pc = "idle"
    /\ vmState = "Running"
    /\ mountRet = Bare("none")
    /\ pc' = "mount_mkdir"
    /\ mIdx' = 1
    /\ UNCHANGED << sshLog, mountRet, mcMounts >>
    /\ UNCHANGED lifecycleVars
    /\ UNCHANGED startVars
    /\ UNCHANGED << netVars, osVars >>

\* the mount pass going on to the mount command although the
\* directory-creation command failed
MountVolumesToVM_Mkdir_BestEffort ==
    /\ pc = "mount_mkdir"
    /\ mIdx <= Len(mcMounts)
    /\ \E ok \in BOOLEAN :
         /\ CommonSSH(mIdx, "mkdir", MkdirArgs(mcMounts[mIdx]), ok)
         /\ pc' = "mount_type"
         /\ UNCHANGED mountRet
    /\ UNCHANGED << mIdx, mcMounts >>
    /\ UNCHANGED lifecycleVars
    /\ UNCHANGED startVars
    /\ UNCHANGED << netVars, osVars >>

\* lines 309-327: the next mount of the range, its directory-creation command
MountVolumesToVM_Mkdir ==
    /\ pc = "mount_mkdir"
    /\ mIdx <= Len(mcMounts)
    /\ \E ok \in BOOLEAN :
         /\ CommonSSH(mIdx, "mkdir", MkdirArgs(mcMounts[mIdx]), ok)
         /\ IF ok
            THEN pc' = "mount_type" /\ UNCHANGED mountRet
            ELSE pc' = "mount_ret" /\ mountRet' = Bare("ssh")
    /\ UNCHANGED << mIdx, mcMounts >>
    /\ UNCHANGED lifecycleVars
    /\ UNCHANGED startVars
    /\ UNCHANGED << netVars, osVars >>

\* lines 328-342: the switch on the mount type and the mount command
MountVolumesToVM_Mount ==
    /\ pc = "mount_type"
    /\ IF mcMounts[mIdx].Type = MountType9p
       THEN \E ok \in BOOLEAN :
              /\ CommonSSH(mIdx, "mount", MountArgs(mcMounts[mIdx]), ok)
              /\ IF ok
                 THEN pc' = "mount_mkdir" /\ mIdx' = mIdx + 1 /\ UNCHANGED mountRet
                 ELSE pc' = "mount_ret" /\ mountRet' = Bare("ssh") /\ UNCHANGED mIdx
       ELSE /\ mountRet' = Err("unknown mount type", <<>>, mcMounts[mIdx].Type, <<>>)
            /\ pc' = "mount_ret"
            /\ UNCHANGED << mIdx, sshLog >>
    /\ UNCHANGED mcMounts
    /\ UNCHANGED lifecycleVars
    /\ UNCHANGED startVars
    /\ UNCHANGED << netVars, osVars >>

\* line 344: the range is exhausted
MountVolumesToVM_Done ==
    /\ pc = "mount_mkdir"
    /\ mIdx > Len(mcMounts)
    /\ mountRet' = nil
    /\ pc' = "mount_ret"
    /\ UNCHANGED << mIdx, sshLog, mcMounts >>
    /\ UNCHANGED lifecycleVars
    /\ UNCHANGED startVars
    /\ UNCHANGED << netVars, osVars >>

\* the mount pass has returned
Caller_MountReturned ==
    /\ pc = "mount_ret"
    /\ pc' = "idle"
    /\ UNCHANGED << mIdx, sshLog, mountRet, mcMounts >>
    /\ UNCHANGED lifecycleVars
    /\ UNCHANGED startVars
    /\ UNCHANGED << netVars, osVars >>

InitMount ==
    /\ vmState = "Uninitialized"
    /\ pc = "idle"
    /\ mcHypervisor = NoHypervisor
    /\ mcRootful = FALSE
    /\ mcUSBs = NoUSBs
    /\ mcMounts \in MountConfigs
    /\ qCommand = <<>>
    /\ resizedIn = {}
    /\ createRet = CreateRet(Bare("none"), FALSE, 0)
    /\ attrsRet = AttrsRet(0, Bare("none"), FALSE, FALSE)
    /\ proxyUp = FALSE
    /\ nStarts = 0
    /\ gvWait = NoGvWait
    /\ cmd = NoCmd
    /\ procs = <<>>
    /\ bufs = [c \in 1..MaxStarts |-> <<>>]
    /\ listener = 0
    /\ startRet = NoRet
    /\ readyHandle = NoHandle
    /\ wait = NoWait
    /\ readyRet = Bare("none")
    /\ mIdx = 0
    /\ sshLog = <<>>
    /\ mountRet = Bare("none")
    /\ gvSockFile = FALSE
    /\ gvCmd = <<>>
    /\ errLog = <<>>
    /\ netRet = NoNetRet
    /\ mRestart = FALSE
    /\ applyLog = <<>>
    /\ applyRet = Bare("none")

NextMount ==
    \/ CreateVM
    \/ Caller_CreateReturned
    \/ Lifecycle_Step
    \/ Caller_Mount
    \/ MountVolumesToVM_Mkdir
    \/ MountVolumesToVM_Mount
    \/ MountVolumesToVM_Done
    \/ Caller_MountReturned

SpecMount == InitMount /\ [][NextMount]_vars

NextAttrs ==
    \/ CreateVM
    \/ Caller_CreateReturned
    \/ Lifecycle_Step
    \/ Caller_SetProviderAttrs

SpecAttrs == Init /\ [][NextAttrs]_vars

(***************************************************************************)
(* The command line over repeated starts.  The readiness wait appears here *)
(* by its outcome only; the machine configuration varies in its mounts and, *)
(* between starts, in its USB list.                                        *)
(***************************************************************************)
\* mounts that differ in source, tag, security model and read-only flag
CmdMountChoices ==
    { Mount("/a", "/home/u", "t0", FALSE, MountType9p, "none"),
      Mount("/b", "/mnt", "t1", TRUE, MountType9p, "mapped-xattr") }
CmdMountConfigs == UNION { [1..n -> CmdMountChoices] : n \in 0..MaxMounts }

\* the caller invokes the readiness handle and the wait returns
Caller_ReadyOutcome ==
    /\ pc = "idle"
    /\ vmState = "Starting"
    /\ readyHandle # NoHandle
    /\ readyHandle' = NoHandle
    /\ \E ok \in BOOLEAN :
         /\ readyRet' = IF ok THEN nil ELSE Bare("timeout")
         /\ vmState' = IF ok THEN "Running" ELSE "Failed"
    /\ UNCHANGED << pc, mcHypervisor, mcRootful, mcUSBs, mcMounts, qCommand,
                    resizedIn, createRet, attrsRet, proxyUp, nStarts, gvWait,
                    cmd, procs, bufs, listener, startRet, wait >>
    /\ UNCHANGED mountVars
    /\ UNCHANGED << netVars, osVars >>

\* the caller updates the USB list of the stopped machine
Caller_SetUSBs ==
    /\ vmState = "Stopped"
    /\ \E u \in USBOpts :
         SetProviderAttrs([DiskSize |-> Unset("0"), Rootful |-> Unset(FALSE),
                           USBs |-> u], FALSE, "ok", TRUE)

InitCmd ==
    /\ vmState = "Uninitialized"
    /\ pc = "idle"
    /\ mcHypervisor = NoHypervisor
    /\ mcRootful = FALSE
    /\ mcUSBs = NoUSBs
    /\ mcMounts \in CmdMountConfigs
    /\ qCommand = <<>>
    /\ resizedIn = {}
    /\ createRet = CreateRet(Bare("none"), FALSE, 0)
    /\ attrsRet = AttrsRet(0, Bare("none"), FALSE, FALSE)
    /\ proxyUp = FALSE
    /\ nStarts = 0
    /\ gvWait = NoGvWait
    /\ cmd = NoCmd
    /\ procs = <<>>
    /\ bufs = [c \in 1..MaxStarts |-> <<>>]
    /\ listener = 0
    /\ startRet = NoRet
    /\ readyHandle = NoHandle
    /\ wait = NoWait
    /\ readyRet = Bare("none")
    /\ mIdx = 0
    /\ sshLog = <<>>
    /\ mountRet = Bare("none")
    /\ gvSockFile = FALSE
    /\ gvCmd = <<>>
    /\ errLog = <<>>
    /\ netRet = NoNetRet
    /\ mRestart = FALSE
    /\ applyLog = <<>>
    /\ applyRet = Bare("none")

NextCmd ==
    \/ CreateVM
    \/ Caller_CreateReturned
    \/ Caller_Start
    \/ StartVM_setQEMUCommandLine
    \/ StartVM_Sockets
    \/ StartVM_WaitForSocket
    \/ StartVM_BuildCmd
    \/ runStartVMCommand_Start
    \/ runStartVMCommand_Reresolve
    \/ runStartVMCommand_Restart
    \/ StartVM_Return
    \/ Caller_StartReturned
    \/ Caller_ReadyOutcome
    \/ Caller_Stop
    \/ Caller_Stopped
    \/ Caller_SetUSBs
    \/ Proxy_Toggle

SpecCmd == InitCmd /\ [][NextCmd]_vars

(***************************************************************************)
(* The disk resize over the lifecycle: CreateVM, the start sequence and    *)
(* SetProviderAttrs asked for a disk size in any VM state.                 *)
(***************************************************************************)
\* the caller asks for a disk size, whatever the VM state
Caller_SetDiskSize ==
    \E d \in DiskSizeOpts, stateErr \in BOOLEAN, r \in ResizeOutcomes :
        SetProviderAttrs([DiskSize |-> d, Rootful |-> Unset(FALSE),
                          USBs |-> Unset(<<>>)], stateErr, r, TRUE)

NextResize ==
    \/ CreateVM
    \/ Caller_CreateReturned
    \/ Caller_Start
    \/ StartVM_setQEMUCommandLine
    \/ StartVM_Sockets
    \/ StartVM_WaitForSocket
    \/ StartVM_BuildCmd
    \/ runStartVMCommand_Start
    \/ runStartVMCommand_Reresolve
    \/ runStartVMCommand_Restart
    \/ StartVM_Return
    \/ Caller_StartReturned
    \/ Caller_ReadyOutcome
    \/ Caller_Stop
    \/ Caller_Stopped
    \/ Caller_SetDiskSize
    \/ Proxy_Toggle

SpecResize == Init /\ [][NextResize]_vars

(***************************************************************************)
(* StartNetworking                                                         *)
(***************************************************************************)
\* the hosts of the build (!darwin): the path separator and the path of the
\* proxy socket, as characters
Hosts == { [sep |-> "/", path |-> << "/", "r", "/", "g" >>],
           [sep |-> "\\", path |-> << "C", ":", "\\", "r", "\\", "g" >>] }

\* filepath.ToSlash: every separator of the host becomes a slash
ToSlash(path, sep) == [i \in DOMAIN path |-> IF path[i] = sep THEN "/" ELSE path[i]]

\* fmt.Sprintf("unix://%s", ...)
UnixURL(path) == << "unix://" >> \o path

\* the caller prepares the network of a start with a new gvproxy command
Caller_StartNetworking ==
    /\ pc = "idle"
    /\ vmState = "Starting"
    /\ pc' = "StartNetworking"
    /\ gvCmd' = <<>>
    /\ errLog' = <<>>
    /\ netRet' = NoNetRet
    /\ UNCHANGED gvSockFile
    /\ UNCHANGED << mcMounts, osVars >>
    /\ UNCHANGED lifecycleVars
    /\ UNCHANGED startVars
    /\ UNCHANGED mountVars

\* StartNetworking returning the error of the deletion
StartNetworking_FailOnDelete(host, sockErr, deleteOK) ==
    /\ pc = "StartNetworking"
    /\ pc' = "StartNetworking_ret"
    /\ IF sockErr
       THEN /\ netRet' = [err |-> Bare("gvproxysocket"), deleteTried |-> FALSE,
                          deleteFailed |-> FALSE]
            /\ UNCHANGED << gvSockFile, gvCmd, errLog >>
       ELSE IF ~deleteOK
       THEN /\ netRet' = [err |-> Bare("delete"), deleteTried |-> TRUE,
                          deleteFailed |-> TRUE]
            /\ UNCHANGED << gvSockFile, gvCmd, errLog >>
       ELSE /\ gvSockFile' = FALSE
            /\ gvCmd' = Append(gvCmd, UnixURL(ToSlash(host.path, host.sep)))
            /\ netRet' = [err |-> nil, deleteTried |-> TRUE, deleteFailed |-> FALSE]
            /\ UNCHANGED errLog
    /\ UNCHANGED << mcMounts, osVars >>
    /\ UNCHANGED lifecycleVars
    /\ UNCHANGED startVars
    /\ UNCHANGED mountVars

\* lines 287-298.  sockErr: mc.GVProxySocket() fails; deleteOK:
\* gvProxySock.Delete() succeeds
StartNetworking(host, sockErr, deleteOK) ==
    /\ pc = "StartNetworking"
    /\ pc' = "StartNetworking_ret"
    /\ IF sockErr
       THEN /\ netRet' = [err |-> Bare("gvproxysocket"), deleteTried |-> FALSE,
                          deleteFailed |-> FALSE]
            /\ UNCHANGED << gvSockFile, gvCmd, errLog >>
       ELSE /\ gvSockFile' = IF deleteOK THEN FALSE ELSE gvSockFile
            /\ errLog' = IF deleteOK THEN errLog ELSE Append(errLog, Bare("delete"))
            /\ gvCmd' = Append(gvCmd, UnixURL(ToSlash(host.path, host.sep)))
            /\ netRet' = [err |-> nil, deleteTried |-> TRUE, deleteFailed |-> ~deleteOK]
    /\ UNCHANGED << mcMounts, osVars >>
    /\ UNCHANGED lifecycleVars
    /\ UNCHANGED startVars
    /\ UNCHANGED mountVars

\* a call of StartNetworking on any host, with any outcome of its steps
StartNetworking_Call ==
    \E host \in Hosts, sockErr \in BOOLEAN, deleteOK \in BOOLEAN :
        StartNetworking(host, sockErr, deleteOK)

\* StartNetworking has returned; on an error the start is given up
Caller_NetReturned ==
    /\ pc = "StartNetworking_ret"
    /\ pc' = "idle"
    /\ vmState' = IF netRet.err = nil THEN vmState ELSE "Failed"
    /\ UNCHANGED << mcHypervisor, mcRootful, mcUSBs, mcMounts, qCommand, resizedIn,
                    createRet, attrsRet >>
    /\ UNCHANGED << netVars, osVars >>
    /\ UNCHANGED startVars
    /\ UNCHANGED mountVars

\* the network proxy of a run leaves its socket behind
Proxy_LeavesSocket ==
    /\ pc = "idle"
    /\ vmState \in {"Running", "Stopping", "Stopped", "Failed"}
    /\ ~gvSockFile
    /\ gvSockFile' = TRUE
    /\ UNCHANGED << pc, mcMounts, gvCmd, errLog, netRet, osVars >>
    /\ UNCHANGED lifecycleVars
    /\ UNCHANGED startVars
    /\ UNCHANGED mountVars

NextNet ==
    \/ CreateVM
    \/ Caller_CreateReturned
    \/ Lifecycle_Step
    \/ Caller_StartNetworking
    \/ StartNetworking_Call
    \/ Caller_NetReturned
    \/ Proxy_LeavesSocket

SpecNet == Init /\ [][NextNet]_vars

(***************************************************************************)
(* MachineOS.Apply                                                         *)
(***************************************************************************)
\* a call Apply has made, and whether it succeeded
Called(call, ok) == [call |-> call, ok |-> ok]

\* Apply returns err
Apply_Return(err) ==
    /\ applyRet' = err
    /\ pc' = "Apply_ret"

\* the caller applies an OS image to the running machine, asking for a
\* restart or not
Caller_Apply ==
    /\ pc = "idle"
    /\ vmState = "Running"
    /\ pc' = "Apply"
    /\ mRestart' \in BOOLEAN
    /\ applyLog' = <<>>
    /\ applyRet' = Bare("none")
    /\ UNCHANGED << mcMounts, netVars >>
    /\ UNCHANGED lifecycleVars
    /\ UNCHANGED startVars
    /\ UNCHANGED mountVars

\* lines 24-28: the remote apply command
Apply_CommonSSH ==
    /\ pc = "Apply"
    /\ \E ok \in BOOLEAN :
         /\ applyLog' = Append(applyLog, Called("ssh", ok))
         /\ IF ok THEN pc' = "Apply_dirs" /\ UNCHANGED applyRet
            ELSE Apply_Return(Bare("ssh"))
    /\ UNCHANGED << mcMounts, mRestart, netVars >>
    /\ UNCHANGED lifecycleVars
    /\ UNCHANGED startVars
    /\ UNCHANGED mountVars

\* lines 30-35, 44: machine.GetMachineDirs, then the Restart flag
Apply_GetMachineDirs ==
    /\ pc = "Apply_dirs"
    /\ \E ok \in BOOLEAN :
         /\ applyLog' = Append(applyLog, Called("dirs", ok))
         /\ IF ~ok THEN Apply_Return(Bare("dirs"))
            ELSE IF mRestart THEN pc' = "Apply_stop" /\ UNCHANGED applyRet
            ELSE Apply_Return(nil)
    /\ UNCHANGED << mcMounts, mRestart, netVars >>
    /\ UNCHANGED lifecycleVars
    /\ UNCHANGED startVars
    /\ UNCHANGED mountVars

\* Apply going on to the start although the stop failed
Apply_Stop_ErrIgnored ==
    /\ pc = "Apply_stop"
    /\ \E ok \in BOOLEAN :
         /\ applyLog' = Append(applyLog, Called("Stop", ok))
         /\ vmState' = IF ok THEN "Stopped" ELSE "Failed"
         /\ pc' = "Apply_start"
         /\ UNCHANGED applyRet
    /\ UNCHANGED << mcHypervisor, mcRootful, mcUSBs, mcMounts, qCommand, resizedIn,
                    createRet, attrsRet >>
    /\ UNCHANGED << mRestart, netVars >>
    /\ UNCHANGED startVars
    /\ UNCHANGED mountVars

\* lines 36-38: p5.Stop.  A stop that succeeds leaves the machine Stopped,
\* one that fails leaves it Failed
Apply_Stop ==
    /\ pc = "Apply_stop"
    /\ \E ok \in BOOLEAN :
         /\ applyLog' = Append(applyLog, Called("Stop", ok))
         /\ vmState' = IF ok THEN "Stopped" ELSE "Failed"
         /\ IF ok THEN pc' = "Apply_start" /\ UNCHANGED applyRet
            ELSE Apply_Return(Bare("stop"))
    /\ UNCHANGED << mcHypervisor, mcRootful, mcUSBs, mcMounts, qCommand, resizedIn,
                    createRet, attrsRet >>
    /\ UNCHANGED << mRestart, netVars >>
    /\ UNCHANGED startVars
    /\ UNCHANGED mountVars

\* lines 39-44: p5.Start.  A start that succeeds leaves the machine
\* Running, one that fails leaves it Failed
Apply_Start ==
    /\ pc = "Apply_start"
    /\ \E ok \in BOOLEAN :
         /\ applyLog' = Append(applyLog, Called("Start", ok))
         /\ vmState' = IF ok THEN "Running" ELSE "Failed"
         /\ Apply_Return(IF ok THEN nil ELSE Bare("start"))
    /\ UNCHANGED << mcHypervisor, mcRootful, mcUSBs, mcMounts, qCommand, resizedIn,
                    createRet, attrsRet >>
    /\ UNCHANGED << mRestart, netVars >>
    /\ UNCHANGED startVars
    /\ UNCHANGED mountVars

\* Apply has returned
Caller_ApplyReturned ==
    /\ pc = "Apply_ret"
    /\ pc' = "idle"
    /\ UNCHANGED << mcMounts, netVars, osVars >>
    /\ UNCHANGED lifecycleVars
    /\ UNCHANGED startVars
    /\ UNCHANGED mountVars

NextOS ==
    \/ CreateVM
    \/ Caller_CreateReturned
    \/ Lifecycle_Step
    \/ Caller_Apply
    \/ Apply_CommonSSH
    \/ Apply_GetMachineDirs
    \/ Apply_Stop
    \/ Apply_Start
    \/ Caller_ApplyReturned

SpecOS == Init /\ [][NextOS]_vars

(***************************************************************************)
(* Properties                                                              *)
(***************************************************************************)

\* positions of the thread of control inside StartVM
StartPcs == {"StartVM", "sockets", "gvwait", "devnull", "launch", "reresolve",
             "relaunch", "started", "StartVM_ret"}

\* the running StartVM call has launched a hypervisor process
LaunchedByThisCall == \E p \in DOMAIN procs : procs[p].call = nStarts

\* C1: a SetProviderAttrs call made while the VM state is not Stopped
\* returns an error and has no effect: the resize utility is not run,
\* SetRootful is not called, and mc.Resources.USBs (like the rootful
\* setting) is left as it was, whatever the options.
C1_GatedOnStopped ==
    [][ (attrsRet'.seq # attrsRet.seq /\ vmState # "Stopped")
          => /\ attrsRet'.err \notin {nil, Bare("none")}
             /\ ~attrsRet'.resized
             /\ ~attrsRet'.rootfulCalled
             /\ resizedIn' = resizedIn
             /\ mcRootful' = mcRootful
             /\ mcUSBs' = mcUSBs ]_vars

\* a call refused because the VM was running
C1_Witness ==
    /\ vmState = "Running"
    /\ attrsRet.err = Bare("not-stopped")

\* C2: in every StartVM the hypervisor process is started only after the
\* wait for the network-proxy socket has returned success; when the socket
\* is not connectable in any of the 6 attempts, StartVM returns an error
\* and has started no hypervisor process.
C2_ProxyBeforeLaunch ==
    /\ gvWait.attempts <= gvProxyMaxBackoffAttempts
    /\ cmd.starts > 0 => gvWait.result = "ok"
    /\ (pc \in StartPcs /\ LaunchedByThisCall) => gvWait.result = "ok"
    /\ (pc = "gvwait" /\ gvWait.attempts > 0) => gvWait.result = "none"
    /\ gvWait.result = "exhausted"
         => /\ gvWait.attempts = gvProxyMaxBackoffAttempts
            /\ pc = "StartVM_ret"
            /\ startRet.err = Bare("gvproxy-unavailable")
            /\ cmd.starts = 0
            /\ ~LaunchedByThisCall

\* a hypervisor process launched after a proxy wait that needed all attempts
C2_Witness ==
    /\ pc = "started"
    /\ gvWait.attempts = gvProxyMaxBackoffAttempts
    /\ LaunchedByThisCall

\* C4: a failed first start is followed by the re-resolution and a second
\* start only when the failure is of the binary-not-found class; any other
\* first failure is returned without a second start; the process start is
\* never attempted more than twice.
C4_RetryOnlyWhenNotFound ==
    /\ cmd.starts <= 2
    /\ pc \in {"reresolve", "relaunch"} => cmd.firstErr = "notfound"
    /\ cmd.starts = 2 => cmd.firstErr = "notfound"

\* C5 as claimed: every error runStartVMCommand returns is the launch
\* failure wrapped with the attempted command, also when the configuration
\* load or the helper-binary lookup fails.
C5_AlwaysWrapped ==
    (pc = "StartVM_ret" /\ cmd.starts > 0 /\ startRet.err # nil)
        => /\ startRet.err.kind = "execute"
           /\ startRet.err.cmd = CmdString(cmd)
           /\ startRet.err.cause \in StartFailures

\* C5, amended: the error of a failed second start is returned wrapped with
\* the attempted command; when, after the first start failed, the
\* configuration load or the helper-binary lookup fails, that error is
\* returned as it is, not wrapped.
C5_WrappedAfterSecondStart ==
    (pc = "StartVM_ret" /\ cmd.starts > 0 /\ startRet.err # nil)
        => IF cmd.starts = 2
           THEN /\ startRet.err.kind = "execute"
                /\ startRet.err.cmd = CmdString(cmd)
                /\ startRet.err.cause \in StartFailures
           ELSE startRet.err \in {Bare("config"), Bare("helper-binary")}

\* the second start failed and its error came back wrapped
C5_Witness ==
    /\ pc = "StartVM_ret"
    /\ cmd.starts = 2
    /\ startRet.err.kind = "execute"

\* C3: the mount pass rejects a mount of an unsupported type without
\* sending any remote command for that entry: neither the directory-creation
\* command nor the mount command.
C3_NoCommandForUnsupported ==
    mountRet.kind = "unknown mount type"
        => \A k \in DOMAIN sshLog : sshLog[k].mount # mIdx

\* a step of the dial loop of waitForReady
DialStep == pc = "dial" /\ (pc' # "dial" \/ wait'.dials # wait.dials)

\* C6: when, in the readiness wait, the health check finds the hypervisor
\* process terminated while attempts remain, the dial loop ends at once, no
\* further attempt is made, and the error returned is the process-died
\* error, not the timeout, with the contents of the stderr buffer of the
\* process.
C6_AbortOnProcessDeath ==
    [][ (DialStep /\ ~procs[wait.pid].alive)
          => /\ pc' = "ready_ret"
             /\ wait'.dials = wait.dials
             /\ wait.dials < maxBackoffs
             /\ readyRet'.kind = "process-died"
             /\ readyRet' # Bare("timeout")
             /\ readyRet'.diag = bufs[procs[wait.pid].call] ]_vars

\* the process died after some attempts, having written to its stderr
C6_Witness ==
    /\ pc = "ready_ret"
    /\ readyRet.kind = "process-died"
    /\ readyRet.diag # <<>>
    /\ wait.dials > 0
    /\ wait.dials < maxBackoffs

\* C7: a backoff dial makes at most N attempts (N = 6 for the readiness
\* wait and for the proxy wait); once an attempt connects no further
\* attempt is made; a dial that fails with the process alive has made
\* exactly N attempts and fails with the timeout error, the process-died
\* error being returned only for a dead process.
C7_BoundedAttempts ==
    /\ [](/\ wait.dials <= maxBackoffs
          /\ gvWait.attempts <= gvProxyMaxBackoffAttempts
          /\ (pc = "ready_ret" /\ readyRet = Bare("timeout"))
                => wait.dials = maxBackoffs /\ wait.conn = "none"
          /\ (pc = "ready_ret" /\ readyRet.kind = "process-died")
                => ~procs[wait.pid].alive
          /\ (pc = "ready_ret" /\ wait.dials = maxBackoffs /\ wait.conn = "none"
                /\ procs[wait.pid].alive) => readyRet = Bare("timeout")
          /\ gvWait.result = "exhausted"
                => gvWait.attempts = gvProxyMaxBackoffAttempts)
    /\ [][ /\ (wait.conn # "none" /\ wait'.pid = wait.pid)
                => wait'.dials = wait.dials
           /\ (DialStep /\ procs[wait.pid].alive /\ listener # 0)
                => pc' = "read" /\ wait'.dials = wait.dials + 1
           /\ (gvWait.result = "ok" /\ gvWait' # NoGvWait)
                => gvWait' = gvWait ]_vars

\* the readiness socket never accepted, the process stayed alive: timeout
\* after the 6th attempt
C7_Witness ==
    /\ pc = "ready_ret"
    /\ readyRet = Bare("timeout")
    /\ wait.dials = maxBackoffs
    /\ procs[wait.pid].alive

\* C8: StartVM does not wait for readiness itself.  No dial of the
\* readiness socket happens inside StartVM; a readiness handle exists only
\* after a successful launch; a wait runs only once StartVM has returned the
\* handle and the caller has invoked it; the handle is bound to the pid and
\* the stderr buffer of the process launched by the same StartVM call.
C8_DeferredReadiness ==
    LET Bound(h) == /\ h.pid \in DOMAIN procs
                    /\ procs[h.pid].call = nStarts
                    /\ h.buf = nStarts
    IN  /\ pc \in StartPcs => wait = NoWait
        /\ startRet.ready # NoHandle
             => startRet.err = nil /\ startRet.release /\ Bound(startRet.ready)
        /\ readyHandle # NoHandle
             => pc \notin StartPcs /\ readyHandle = startRet.ready
        /\ wait # NoWait
             => /\ startRet.err = nil
                /\ startRet.ready = [pid |-> wait.pid, buf |-> wait.buf]
                /\ readyHandle = NoHandle
        /\ pc = "StartVM_ret" /\ startRet.err = nil
             => startRet.ready = [pid |-> cmd.pid, buf |-> cmd.buf]

\* the second StartVM call launched the first process, and the caller has
\* begun the wait on its handle
C8_Witness ==
    /\ pc = "dial"
    /\ wait.dials > 0
    /\ wait.pid = 1
    /\ wait.buf = 2

\* C9: a StartVM that returns an error returns neither a release handle nor
\* a readiness handle, and the VM counts as Running only after the
\* readiness handle of a successful StartVM has returned without error.
C9_FailedStartNeverRunning ==
    /\ startRet.err # nil => ~startRet.release /\ startRet.ready = NoHandle
    /\ (pc \notin StartPcs /\ startRet.err \notin {nil, Bare("none")})
         => vmState = "Failed"
    /\ vmState \in {"Running", "Stopping"}
         => /\ startRet.err = nil
            /\ startRet.ready # NoHandle
            /\ readyRet = nil

\* a start that failed because the launch failed twice
C9_Witness ==
    /\ vmState = "Failed"
    /\ startRet.err.kind = "execute"
    /\ readyRet = Bare("none")

\* C10 as claimed: the readiness wait always eventually returns, also when
\* the peer keeps the connection open without sending a newline.
C10_AlwaysReturns == (pc = "dial") ~> (pc = "ready_ret")

\* C10, amended: the dial phase of the readiness wait always ends; once
\* connected, the wait returns success when a newline-terminated line has
\* arrived, whatever its content, and a read error when the connection ends
\* before a newline, as when the hypervisor process dies after the
\* connection was made; it returns in no other case, so it blocks for as
\* long as the peer keeps the connection open without sending a newline.
C10_ReturnsOnLineOrEOF ==
    /\ []((pc = "ready_ret" /\ wait.conn = "closed")
            => /\ readyRet = nil <=> HasLine(wait.rx)
               /\ readyRet # nil => readyRet = Bare("read-eof"))
    /\ [][(pc = "read" /\ pc' # "read")
            => (HasLine(wait.rx) \/ wait.conn = "eof") /\ pc' = "ready_ret"]_vars
    /\ (pc = "dial") ~> (pc \in {"read", "ready_ret"})
    /\ (pc = "read" /\ (HasLine(wait.rx) \/ wait.conn = "eof")) ~> (pc = "ready_ret")

\* the process died after the connection was made, before the end of the
\* line: the wait returned the read error
C10_Witness ==
    /\ pc = "ready_ret"
    /\ readyRet = Bare("read-eof")
    /\ wait.rx = << "x" >>
    /\ ~procs[wait.peer].alive

\* the number of groups named g in a command line
CountGroups(cmdLine, g) == Cardinality({ i \in DOMAIN cmdLine : cmdLine[i].g = g })

\* the shared-directory groups of a command line, in their order
VirtfsOf(cmdLine) ==
    LET IsVirtfs(x) == x.g = "virtfs"
    IN  SelectSeq(cmdLine, IsVirtfs)

\* q.Command holds the result of a completed setQEMUCommandLine
CommandBuilt == pc \in {"sockets", "gvwait", "devnull"}

\* one monitor, one network and one serial attachment, and one
\* shared-directory attachment per mount, in the order of the mounts
Attachments(cmdLine, mounts) ==
    /\ CountGroups(cmdLine, "qmp") = 1
    /\ CountGroups(cmdLine, "network") = 1
    /\ CountGroups(cmdLine, "serial") = 1
    /\ Len(VirtfsOf(cmdLine)) = Len(mounts)
    /\ \A i \in DOMAIN mounts :
         VirtfsOf(cmdLine)[i].args =
             << mounts[i].Source, mounts[i].Tag, mounts[i].OriginalInput[3],
                IF mounts[i].ReadOnly THEN "ro" ELSE "rw" >>

\* C11: for a machine configuration with N mounts, the command line built
\* for a start holds exactly one monitor-socket, one network-device and one
\* serial-port attachment and exactly N shared-directory attachments, one
\* per mount in input order, each with the source, tag, security model and
\* read-only flag of its mount.
C11_Attachments ==
    /\ CommandBuilt => Attachments(qCommand, mcMounts)
    /\ cmd.Args # <<>> => Attachments(cmd.Args, mcMounts)

\* the second start of a machine with two different mounts is at its launch
C11_Witness ==
    /\ pc = "launch"
    /\ nStarts = 2
    /\ Len(mcMounts) = 2
    /\ mcMounts[1] # mcMounts[2]

\* C12: the command line is rebuilt from scratch on every start: after any
\* sequence of StartVM calls (start, stop, start again, starts that failed
\* part-way) the command line of the latest start is, token for token, the
\* one built from the current machine configuration alone; nothing of an
\* earlier start is carried over or duplicated.
C12_RebuiltFromScratch ==
    LET fresh == BuiltCommand(<<>>, "none", mcMounts, mcUSBs)
    IN  /\ CommandBuilt => qCommand = fresh
        /\ cmd.Args # <<>>
             => /\ cmd.Args = IF cmd.debug THEN fresh ELSE SetDisplay(fresh, "none")
                /\ \A g \in {"bin", "image", "memory", "cpus", "ignition", "qmp",
                             "network", "serial"} : CountGroups(cmd.Args, g) = 1
                /\ CountGroups(cmd.Args, "virtfs") = Len(mcMounts)
                /\ CountGroups(cmd.Args, "usb") = Len(mcUSBs)

\* a second start at its launch, the USB list changed since the first
C12_Witness ==
    /\ pc = "launch"
    /\ nStarts = 2
    /\ mcUSBs # NoUSBs
    /\ Len(mcMounts) = 1

\* the position of a token group in the invocation
Rank(g) ==
    CASE g = "bin" -> 1 [] g = "image" -> 2 [] g = "memory" -> 3
      [] g = "cpus" -> 4 [] g = "ignition" -> 5 [] g = "qmp" -> 6
      [] g = "network" -> 7 [] g = "serial" -> 8 [] g = "virtfs" -> 9
      [] g = "usb" -> 10 [] g = "display" -> 11

\* C13: the token groups of the launched command line come in the order
\* executable path, bootable image, memory size, CPU count, first-boot
\* configuration, monitor socket, network device, serial port, the
\* shared-directory attachments, the USB attachments and last the display
\* flag, which is present exactly when debug logging is not enabled at
\* start time.
C13_GroupOrder ==
    cmd.Args # <<>>
        => LET a == cmd.Args
               n == Len(a)
           IN  /\ n >= 8
               /\ \A i \in 1..8 : Rank(a[i].g) = i
               /\ \A i \in 1..(n - 1) :
                    /\ Rank(a[i].g) <= Rank(a[i + 1].g)
                    /\ Rank(a[i].g) = Rank(a[i + 1].g) => a[i].g \in {"virtfs", "usb"}
               /\ CountGroups(a, "virtfs") = Len(mcMounts)
               /\ CountGroups(a, "usb") = Len(mcUSBs)
               /\ CountGroups(a, "display") = IF cmd.debug THEN 0 ELSE 1
               /\ ~cmd.debug => a[n] = Group("display", << "none" >>)

\* a launch without debug logging, with mounts and USB devices
C13_Witness ==
    /\ pc = "launch"
    /\ ~cmd.debug
    /\ Len(mcMounts) = 2
    /\ mcUSBs # NoUSBs

\* the path target is the directory loc or lies below it
Under(target, loc) ==
    /\ HasPrefix(target, loc)
    /\ \/ Len(Chars(target)) = Len(Chars(loc))
       \/ Chars(target)[Len(Chars(loc)) + 1] = "/"

\* the target lies outside the known-writable locations
OutsideWritable(target) == ~Under(target, "/home") /\ ~Under(target, "/mnt")

\* C14: for every mount, the directory-creation command holds the
\* immutability-clear of the root directory before the mkdir and the
\* immutability-restore after it if and only if the mount target lies
\* outside the known-writable locations /home and /mnt; a target under
\* /home or /mnt yields a command with the mkdir alone.
C14_TogglesIffOutside ==
    \A k \in DOMAIN sshLog :
        sshLog[k].kind = "mkdir"
            => LET a == sshLog[k].args
                   t == mcMounts[sshLog[k].mount].Target
                   At(tok) == { i \in DOMAIN a : a[i] = tok }
               IN  /\ Cardinality(At("mkdir")) = 1
                   /\ a[Len(a)] = t \/ a[Len(a)] = ";"
                   /\ OutsideWritable(t) <=> At("-i") # {}
                   /\ OutsideWritable(t) <=> At("+i") # {}
                   /\ \A i \in At("-i"), j \in At("mkdir") : i < j
                   /\ \A i \in At("+i"), j \in At("mkdir") : j < i

\* C15: the mount pass takes the mounts in input order, issuing for each
\* the directory-creation command and then the mount command, and is
\* fail-fast without rollback: at the first remote-command error or
\* unsupported mount type, at mount i, it returns that error, no remote
\* command is issued for a mount after i, and no unmount is issued for the
\* mounts before i, which stay mounted.
C15_InOrderFailFast ==
    /\ \A k \in DOMAIN sshLog :
         /\ sshLog[k].kind \in {"mkdir", "mount"}
         /\ k < Len(sshLog) => sshLog[k].ok
         /\ sshLog[k].mount \in DOMAIN mcMounts
         /\ sshLog[k].kind = "mkdir"
              => /\ sshLog[k].mount = (k + 1) \div 2
                 /\ k % 2 = 1
                 /\ sshLog[k].args[Len(sshLog[k].args)]
                       \in {mcMounts[sshLog[k].mount].Target, ";"}
         /\ sshLog[k].kind = "mount"
              => /\ sshLog[k].mount = k \div 2
                 /\ k % 2 = 0
                 /\ mcMounts[sshLog[k].mount].Type = MountType9p
                 /\ \E i \in DOMAIN sshLog[k].args :
                      sshLog[k].args[i] = mcMounts[sshLog[k].mount].Target
    /\ (pc = "mount_ret" /\ mountRet = nil)
         => /\ Len(sshLog) = 2 * Len(mcMounts)
            /\ \A k \in DOMAIN sshLog : sshLog[k].ok
    /\ (pc = "mount_ret" /\ mountRet # nil)
         => /\ mIdx \in DOMAIN mcMounts
            /\ \A k \in DOMAIN sshLog : sshLog[k].mount <= mIdx
            /\ \A i \in 1..(mIdx - 1) :
                 /\ sshLog[2 * i].kind = "mount" /\ sshLog[2 * i].ok
                 /\ sshLog[2 * i].mount = i
            /\ IF mountRet = Bare("ssh")
               THEN /\ ~sshLog[Len(sshLog)].ok
                    /\ sshLog[Len(sshLog)].mount = mIdx
               ELSE /\ mountRet.kind = "unknown mount type"
                    /\ mountRet.cause = mcMounts[mIdx].Type
                    /\ mcMounts[mIdx].Type # MountType9p
                    /\ sshLog[Len(sshLog)].ok

\* the mount command of the first of two mounts failed: the pass returned
\* with nothing issued for the second
C15_Witness ==
    /\ pc = "mount_ret"
    /\ Len(mcMounts) = 2
    /\ mIdx = 1
    /\ mountRet = Bare("ssh")
    /\ Len(sshLog) = 2

\* a registered endpoint is "unix://" followed by a path in slashes
IsUnixURL(u) ==
    /\ Len(u) > 1
    /\ u[1] = "unix://"
    /\ \A i \in 2..Len(u) : u[i] # "\\"
    /\ \E host \in Hosts :
         /\ Len(host.path) = Len(u) - 1
         /\ \A i \in DOMAIN host.path :
              u[i + 1] = host.path[i] \/ (host.path[i] = host.sep /\ u[i + 1] = "/")

\* C16: StartNetworking tolerates a stale proxy socket: a failure to delete
\* the old artifact is logged and does not fail the operation, the
\* hypervisor socket endpoint being registered all the same as a unix://
\* URL; the operation fails only when the proxy-socket path cannot be
\* resolved, and then nothing is deleted or registered.
C16_StaleSocketTolerated ==
    /\ [](pc = "StartNetworking_ret"
            => IF netRet.err = nil
               THEN /\ netRet.deleteTried
                    /\ Len(gvCmd) = 1
                    /\ IsUnixURL(gvCmd[1])
                    /\ netRet.deleteFailed <=> errLog # <<>>
                    /\ ~netRet.deleteFailed => ~gvSockFile
               ELSE /\ netRet.err = Bare("gvproxysocket")
                    /\ ~netRet.deleteTried
                    /\ ~netRet.deleteFailed
                    /\ gvCmd = <<>>
                    /\ errLog = <<>>)
    /\ [][ (pc = "StartNetworking" /\ netRet'.err # nil)
              => gvSockFile' = gvSockFile /\ gvCmd' = gvCmd ]_vars

\* the stale socket of an earlier run could not be deleted: the call
\* succeeded with the endpoint registered
C16_Witness ==
    /\ pc = "StartNetworking_ret"
    /\ gvSockFile
    /\ netRet.deleteFailed
    /\ netRet.err = nil
    /\ Len(gvCmd) = 1
    /\ gvCmd[1][2] = "C"

\* C17 as claimed: in every reachable state of the lifecycle the resize
\* utility has been run only while the VM state was Stopped, whichever
\* operation ran it (CreateVM, StartVM, SetProviderAttrs).
C17_ResizeOnlyWhenStopped == resizedIn \subseteq {"Stopped"}

\* C17, amended: the resize utility is run by SetProviderAttrs only while
\* the VM state is Stopped, and by CreateVM, without a check of the state,
\* as the initial resize of the machine it creates (state Uninitialized);
\* StartVM never runs it.
C17_ResizeWhenStoppedOrCreating ==
    /\ [](/\ resizedIn \subseteq {"Uninitialized", "Stopped"}
          /\ "Uninitialized" \in resizedIn => createRet.resized)
    /\ [][ /\ (attrsRet'.seq # attrsRet.seq /\ attrsRet'.resized)
                => vmState = "Stopped" /\ "Stopped" \in resizedIn'
           /\ (pc' = "CreateVM_ret" /\ createRet'.resized)
                => vmState = "Uninitialized" /\ "Uninitialized" \in resizedIn'
           /\ resizedIn' # resizedIn
                => \/ attrsRet'.seq # attrsRet.seq /\ attrsRet'.resized
                   \/ pc' = "CreateVM_ret" /\ createRet'.resized
           /\ (pc \in StartPcs \/ pc' \in StartPcs) => resizedIn' = resizedIn ]_vars

\* the disk was resized at creation and again, after a start and a stop,
\* by SetProviderAttrs
C17_Witness ==
    /\ resizedIn = {"Uninitialized", "Stopped"}
    /\ vmState = "Stopped"
    /\ nStarts > 0
    /\ attrsRet.resized

\* the calls Apply makes: an initial part of ssh, dirs, Stop, Start, each
\* call but the last a success; Stop and Start only with Restart set; a
\* failed Stop is the last call and its error the result
ApplyCalls ==
    LET order == << "ssh", "dirs", "Stop", "Start" >>
        n == Len(applyLog)
        Has(c) == \E k \in DOMAIN applyLog : applyLog[k].call = c
        Failed(c) == \E k \in DOMAIN applyLog : applyLog[k] = Called(c, FALSE)
    IN  /\ n <= 4
        /\ \A k \in DOMAIN applyLog :
             /\ applyLog[k].call = order[k]
             /\ k < n => applyLog[k].ok
        /\ Has("Stop") => mRestart
        /\ Has("Start") => mRestart /\ applyLog[3] = Called("Stop", TRUE)
        /\ Failed("ssh") => ~Has("Stop") /\ ~Has("Start")
        /\ Failed("Stop") => ~Has("Start")
        /\ pc = "Apply_ret"
             => /\ ~mRestart => ~Has("Stop") /\ ~Has("Start")
                /\ Failed("ssh") => applyRet = Bare("ssh")
                /\ Failed("Stop") => applyRet = Bare("stop")
                /\ Failed("Start") => applyRet = Bare("start")
                /\ applyRet = nil
                     <=> /\ n = IF mRestart THEN 4 ELSE 2
                         /\ \A k \in DOMAIN applyLog : applyLog[k].ok

\* C18 as claimed: Apply restarts the machine only with Restart set and
\* after the remote apply succeeded, by Stop and then Start; when Stop
\* fails Start is never called, the error is returned and the machine is
\* left stopped.
C18_StopFailureLeavesStopped ==
    /\ ApplyCalls
    /\ (pc = "Apply_ret" /\ applyRet = Bare("stop")) => vmState = "Stopped"

\* C18, amended: Apply restarts the machine only with Restart set and
\* after the remote apply succeeded, by Stop and then Start in that order;
\* when the remote apply fails neither is called, with Restart unset
\* neither is called, and when Stop fails Start is never called and the
\* error of Stop is returned, the machine being left as the failed Stop
\* left it: Failed, not Stopped.
C18_RestartIsStopThenStart ==
    /\ ApplyCalls
    /\ (pc = "Apply_ret" /\ applyRet = Bare("stop")) => vmState = "Failed"
    /\ (pc = "Apply_ret" /\ applyRet = Bare("start")) => vmState = "Failed"
    /\ (pc = "Apply_ret" /\ applyRet = nil) => vmState = "Running"
    /\ (pc = "Apply_ret" /\ applyRet \in {Bare("ssh"), Bare("dirs")})
         => vmState = "Running"

\* with Restart set the stop failed: no start was called
C18_Witness ==
    /\ pc = "Apply_ret"
    /\ mRestart
    /\ applyLog = << Called("ssh", TRUE), Called("dirs", TRUE), Called("Stop", FALSE) >>
    /\ applyRet = Bare("stop")

\* the options of a SetProviderAttrs call
AllOpts == { [DiskSize |-> d, Rootful |-> rf, USBs |-> u] :
               d \in DiskSizeOpts, rf \in RootfulOpts, u \in USBOpts }

\* C19: in the Stopped state SetProviderAttrs applies the requested changes
\* in the order disk resize, rootful toggle, USB list and stops at the first
\* failure without undoing the earlier steps: a failed disk resize leaves
\* the rootful setting and the USB list unchanged, a failed USB parse leaves
\* mc.Resources.USBs unchanged although a requested resize and rootful
\* toggle have been applied; the rootful setter is invoked only when the
\* requested value differs from the current one, and an option left unset
\* changes nothing.
C19_OrderedNoRollback ==
    [][ (vmState = "Stopped" /\ attrsRet'.seq # attrsRet.seq)
        => \A opts \in AllOpts :
           \A r \in ResizeOutcomesFor(opts), rootfulOK \in RootfulOutcomesFor(opts) :
          SetProviderAttrs(opts, FALSE, r, rootfulOK)
            => LET resizeFails == opts.DiskSize.set /\ r # "ok"
                   differs == opts.Rootful.set /\ opts.Rootful.val # mcRootful
                   rootfulFails == ~resizeFails /\ differs /\ ~rootfulOK
                   parseFails == /\ ~resizeFails /\ ~rootfulFails
                                 /\ opts.USBs.set
                                 /\ \E i \in DOMAIN opts.USBs.val :
                                      opts.USBs.val[i] = "bogus"
               IN  /\ resizeFails
                        => /\ attrsRet'.err \notin {nil, Bare("none")}
                           /\ ~attrsRet'.rootfulCalled
                           /\ mcRootful' = mcRootful
                           /\ mcUSBs' = mcUSBs
                   /\ attrsRet'.rootfulCalled <=> (~resizeFails /\ differs)
                   /\ rootfulFails => mcUSBs' = mcUSBs
                   /\ parseFails
                        => /\ attrsRet'.err = Bare("parse-usbs")
                           /\ mcUSBs' = mcUSBs
                           /\ opts.DiskSize.set
                                => attrsRet'.resized /\ "Stopped" \in resizedIn'
                           /\ differs => mcRootful' = opts.Rootful.val
                   /\ ~opts.DiskSize.set
                        => ~attrsRet'.resized /\ resizedIn' = resizedIn
                   /\ ~opts.Rootful.set => mcRootful' = mcRootful
                   /\ ~opts.USBs.set => mcUSBs' = mcUSBs
                   /\ (~resizeFails /\ ~rootfulFails /\ ~parseFails)
                        => /\ attrsRet'.err = nil
                           /\ opts.Rootful.set => mcRootful' = opts.Rootful.val
                           /\ opts.USBs.set
                                => Len(mcUSBs') = Len(opts.USBs.val) ]_vars

\* the USB list did not parse after the disk was resized and the rootful
\* setting changed: the list is as it was
C19_Witness ==
    /\ vmState = "Stopped"
    /\ attrsRet.err = Bare("parse-usbs")
    /\ attrsRet.resized
    /\ attrsRet.rootfulCalled
    /\ mcRootful
    /\ mcUSBs # NoUSBs

\* C20: CreateVM assigns the hypervisor sub-config to the machine
\* configuration only after the monitor socket, the runtime directory and
\* the PID-file handle have all been obtained: when one of the three fails
\* it returns that error with the machine configuration unchanged and no
\* disk resize invoked; an assigned sub-config carries both the monitor and
\* the PID-file path, and the initial disk resize is attempted exactly
\* once, after the assignment, its failure being returned with the
\* sub-config left assigned.
C20_AssignAfterAllObtained ==
    /\ [](/\ mcHypervisor # NoHypervisor
               => mcHypervisor.QMPMonitor # "" /\ mcHypervisor.QEMUPidPath # ""
          /\ pc = "CreateVM_ret"
               => IF createRet.err \in {Bare("monitor"), Bare("runtimedir"),
                                        Bare("pidfile")}
                  THEN /\ mcHypervisor = NoHypervisor
                       /\ createRet.resizeCalls = 0
                       /\ ~createRet.resized
                       /\ resizedIn = {}
                  ELSE /\ mcHypervisor # NoHypervisor
                       /\ createRet.resizeCalls = 1
                       /\ createRet.err \in { resizeDisk(r) : r \in ResizeOutcomes }
                       /\ createRet.err = nil => createRet.resized)
    /\ [][ mcHypervisor' # mcHypervisor
              => /\ mcHypervisor = NoHypervisor
                 /\ pc' = "CreateVM_ret"
                 /\ createRet'.resizeCalls = 1 ]_vars

\* the initial resize failed: the error came back with the sub-config
\* assigned
C20_Witness ==
    /\ pc = "CreateVM_ret"
    /\ createRet.err.kind = "resizing image"
    /\ createRet.resized
    /\ mcHypervisor = [QMPMonitor |-> "qmp.sock", QEMUPidPath |-> "vm.pid"]

====
